---- MODULE Spec2Model ----
(***************************************************************************)
(* Verification model of the MIGA gateway (packages/gateway/server.py),    *)
(* the shared AGNTCY directory client and Redis bus (miga_shared), the     *)
(* platform servers' approval-gated tools and the INFER engine             *)
(* (servers/infer_mcp/server.py).                                          *)
(*                                                                         *)
(* Python strings that the code inspects (substring tests, replace,        *)
(* concatenation) are sequences of one-character strings, so that the      *)
(* string operations are computed.  Enum values (roles, platforms,         *)
(* severities) are TLA+ strings.  Optional[T] is a sequence of length 0    *)
(* (None) or 1.  A dict whose iteration order the code relies on is an     *)
(* association list of <<key, value>> pairs in insertion order.            *)
(***************************************************************************)
EXTENDS Integers, Sequences, FiniteSets, TLC

VARIABLES
    by_tool,        \* RoutingTable._by_tool: tool name -> RoutingEntry
    by_role,        \* RoutingTable._by_role: role -> list of RoutingEntry
    by_platform,    \* RoutingTable._by_platform: platform -> list of RoutingEntry
    endpoints,      \* RoutingTable._endpoints: insertion-ordered name -> endpoint
    last_refresh,   \* RoutingTable._last_refresh
    loaded,         \* the `records` argument of the latest load_from_oasf call
    now,            \* time.time(), in refresh periods
    gw_pc,          \* position of the gateway's app_lifespan
    refresh_pc,     \* position of the _refresh_loop task
    fresh,          \* _refresh_loop's local `fresh` (last discover() result)
    req,            \* the meta-tool request in flight
    calls,          \* MCPForwarder.call_tool invocations made by the request
    served,         \* number of meta-tool requests accepted so far
    bus_log,        \* envelopes published on the Redis bus, in order
    bus_redis,      \* RedisPubSub._redis of a platform server: "none" or "client"
    backend_pc,     \* position of the platform servers' lifespan / tool handler
    returned,       \* tool invocations of the platform servers that have ended
    audit_log,      \* AuditLogEntry objects created, in order
    event_buffer,   \* infer_mcp: _event_buffer
    ingested,       \* infer_mcp: bus messages handed to the ingest handlers
    rca_group,      \* the correlated_group argument of match_root_cause
    rca_result,     \* what match_root_cause returned for it
    rca_pc,         \* "input": group not chosen, "chosen", "matched"
    an_events,      \* the `events` argument of an INFER analysis function
    an_window,      \* the window_seconds argument of correlate_events
    an_out,         \* what the analysis function returned
    an_pc,          \* "input", "chosen", then the name of the function applied
    incident_history,  \* infer_mcp: _incident_history
    anomaly_log,    \* infer_mcp: _anomaly_log
    feed,           \* bus messages published to INFER and not yet delivered
    tool_result,    \* the INFER tool invoked last and what it returned
    directory_calls,  \* DirectoryClient calls that have ended: outcome and result
    api,            \* the CiscoAPIClient._request call in flight
    bot,            \* webex_bot: the message being handled
    listener,       \* RedisPubSub: _handlers, the _listen task, the handler calls made
    directory       \* what the AGNTCY Directory answers to a discover() sent now

tableVars == <<by_tool, by_role, by_platform, endpoints, last_refresh, loaded>>
lifeVars == <<now, gw_pc, refresh_pc, fresh>>
reqVars == <<req, calls, served>>
gatewayVars == <<tableVars, lifeVars, reqVars>>

backendVars == <<bus_log, bus_redis, backend_pc, returned, audit_log>>

\* what no gateway step writes
ingestVars == <<event_buffer, ingested>>
rcaVars == <<rca_group, rca_result, rca_pc>>
analysisVars == <<an_events, an_window, an_out, an_pc>>
inferVars == <<ingestVars, rcaVars, analysisVars>>
toolVars == <<incident_history, anomaly_log, feed, tool_result>>
clientVars == <<directory_calls, api>>
extVars == <<bot, listener, directory>>
nonGateway == <<backendVars, inferVars, toolVars, clientVars, extVars>>

vars == <<gatewayVars, nonGateway>>

(***************************************************************************)
(* Bounds of the model.                                                    *)
(***************************************************************************)
MaxRecords == 2      \* longest record list a discover() response carries
MaxRefreshes == 1    \* refresh-loop iterations explored
MaxRequests == 1     \* meta-tool requests explored
MaxInvocations == 3  \* platform-server tool invocations explored
BufferLimit == 4     \* infer_mcp trims past this length: 10000 in the source, scaled
BufferKeep == 2      \* events a trim keeps: 5000 in the source, scaled
MaxEvents == 2       \* most events in a correlation group given to match_root_cause
MaxCorrelate == 3    \* most events in a list given to correlate_events
MaxAnomalyEvents == 7  \* most events in a list given to detect_anomalies
MaxPredictEvents == 6  \* most events in a list given to predict_failures
MaxRiskEvents == 6     \* most buffered events when the risk score is drawn
MaxLogged == 5         \* most logged anomalies when the risk score is drawn
MaxDirectoryCalls == 2  \* most DirectoryClient calls
MaxWords == 3          \* most words of a message to the bot

(***************************************************************************)
(* Strings.                                                                *)
(***************************************************************************)
None == <<>>
Some(x) == <<x>>

S_health == <<"h","e","a","l","t","h">>
S_overview == <<"o","v","e","r","v","i","e","w">>
S_status == <<"s","t","a","t","u","s">>
S_mcp_suffix == <<"_","m","c","p">>
S_health_suffix == <<"_","h","e","a","l","t","h">>
S_underscore == <<"_">>
S_dash == <<"-">>
S_http == <<"h","t","t","p",":","/","/">>
S_colon == <<":">>
S_empty == <<>>

\* Python `sub in s`
Contains(s, sub) ==
    \E i \in 0..(Len(s) - Len(sub)) : SubSeq(s, i + 1, i + Len(sub)) = sub

\* Python `s.replace(old, new)` for non-empty `old`: leftmost non-overlapping
\* occurrences, scanned left to right.
RECURSIVE Replace(_, _, _)
Replace(s, old, new) ==
    IF Len(s) < Len(old) THEN s
    ELSE IF SubSeq(s, 1, Len(old)) = old
         THEN new \o Replace(SubSeq(s, Len(old) + 1, Len(s)), old, new)
         ELSE <<Head(s)>> \o Replace(Tail(s), old, new)

Range(f) == {f[i] : i \in DOMAIN f}

(***************************************************************************)
(* miga_shared/models.py: enumerations.                                    *)
(***************************************************************************)
MIGARole == {"observability", "security", "automation",
             "configuration", "compliance", "identity"}

PlatformType == {"catalyst_center", "meraki", "thousandeyes", "webex", "xdr",
                 "security_cloud_control", "appdynamics", "nexus_dashboard",
                 "sdwan", "ise", "splunk", "hypershield", "servicenow",
                 "netbox", "infer"}

\* PlatformCapability (description omitted: no code path reads it)
PlatformCapability(tool_name, roles, read_only, destructive, requires_approval, platform) ==
    [tool_name |-> tool_name, roles |-> roles, read_only |-> read_only,
     destructive |-> destructive, requires_approval |-> requires_approval,
     platform |-> platform]

\* OASFRecord, the fields the gateway reads
OASFRecord(name, platform, endpoint, capabilities) ==
    [name |-> name, platform |-> platform, endpoint |-> endpoint,
     capabilities |-> capabilities]

(***************************************************************************)
(* packages/gateway/server.py: RoutingEntry and RoutingTable.              *)
(***************************************************************************)
RoutingEntry(tool_name, endpoint, platform, roles, read_only, requires_approval) ==
    [tool_name |-> tool_name, endpoint |-> endpoint, platform |-> platform,
     roles |-> roles, read_only |-> read_only,
     requires_approval |-> requires_approval]

\* dict[k] = v on a dict modelled as a function
DictPutFirstWins(d, k, v) ==
    IF k \in DOMAIN d THEN d ELSE [x \in DOMAIN d \cup {k} |-> IF x = k THEN v ELSE d[x]]

DictPut(d, k, v) ==
    [x \in DOMAIN d \cup {k} |-> IF x = k THEN v ELSE d[x]]

\* dict[k] = v on an insertion-ordered dict: an existing key keeps its place
OrderedKeys(d) == {d[i][1] : i \in DOMAIN d}

OrderedPut(d, k, v) ==
    IF k \in OrderedKeys(d)
    THEN [i \in DOMAIN d |-> IF d[i][1] = k THEN <<k, v>> ELSE d[i]]
    ELSE Append(d, <<k, v>>)

\* dict.setdefault(k, []).append(v)
SetDefaultAppend(d, k, v) ==
    [x \in DOMAIN d \cup {k} |->
        IF x = k THEN (IF k \in DOMAIN d THEN Append(d[k], v) ELSE <<v>>)
        ELSE d[x]]

\* for role in cap.roles: self._by_role[role].append(entry)
RECURSIVE AppendForRoles(_, _, _)
AppendForRoles(br, roles, entry) ==
    IF roles = <<>> THEN br
    ELSE AppendForRoles([br EXCEPT ![Head(roles)] = Append(@, entry)],
                        Tail(roles), entry)

\* an empty dict
EmptyDict == [x \in {} |-> <<>>]

EmptyTable ==
    [by_tool |-> EmptyDict,
     by_role |-> [r \in MIGARole |-> <<>>],
     by_platform |-> EmptyDict,
     endpoints |-> <<>>]

\* body of `for cap in record.capabilities`
AddCapability(t, record, cap) ==
    LET entry == RoutingEntry(cap.tool_name, record.endpoint, cap.platform,
                              cap.roles, cap.read_only, cap.requires_approval)
    IN  [t EXCEPT !.by_tool = DictPut(@, cap.tool_name, entry),
                  !.by_role = AppendForRoles(@, cap.roles, entry),
                  !.by_platform = SetDefaultAppend(@, cap.platform, entry)]

RECURSIVE AddCapabilities(_, _, _)
AddCapabilities(t, record, caps) ==
    IF caps = <<>> THEN t
    ELSE AddCapabilities(AddCapability(t, record, Head(caps)), record, Tail(caps))

\* body of `for record in records`
AddRecord(t, record) ==
    AddCapabilities([t EXCEPT !.endpoints = OrderedPut(@, record.name, record.endpoint)],
                    record, record.capabilities)

RECURSIVE AddRecords(_, _)
AddRecords(t, records) ==
    IF records = <<>> THEN t
    ELSE AddRecords(AddRecord(t, Head(records)), Tail(records))

\* RoutingTable.load_from_oasf: clear the four indexes, then rebuild them
BuildTable(records) == AddRecords(EmptyTable, records)

\* load_from_oasf has no suspension point: the whole rebuild is one step
load_from_oasf(records) ==
    LET t == BuildTable(records)
    IN  /\ by_tool' = t.by_tool
        /\ by_role' = t.by_role
        /\ by_platform' = t.by_platform
        /\ endpoints' = t.endpoints
        /\ last_refresh' = now
        /\ loaded' = records

tools_for_role(role) == IF role \in DOMAIN by_role THEN by_role[role] ELSE <<>>

tools_for_platform(platform) ==
    IF platform \in DOMAIN by_platform THEN by_platform[platform] ELSE <<>>

get_tool(name) == IF name \in DOMAIN by_tool THEN Some(by_tool[name]) ELSE None

all_endpoints == endpoints

(***************************************************************************)
(* The records a directory response can carry.  The universe has two       *)
(* backends declaring the same tool name, two records carrying the same    *)
(* backend name with different endpoints, a record without capabilities,   *)
(* and a role served only by tools that are not summary tools.             *)
(***************************************************************************)
T_meraki_health == <<"m","e","r","a","k","i","_","h","e","a","l","t","h">>
T_te_overview == <<"t","e","_","o","v","e","r","v","i","e","w">>
T_xdr_status == <<"x","d","r","_","s","t","a","t","u","s">>
T_run_command == <<"c","a","t","a","l","y","s","t","_","r","u","n","_","c","o","m","m","a","n","d">>
T_device_list == <<"d","e","v","i","c","e","_","l","i","s","t">>
T_ghost == <<"g","h","o","s","t">>
N_a == <<"a","_","m","c","p">>
N_b == <<"b","_","m","c","p">>
E_a == <<"h","t","t","p",":","/","/","a",":","1">>
E_b == <<"h","t","t","p",":","/","/","b",":","2">>
E_c == <<"h","t","t","p",":","/","/","c",":","3">>

ToolNames == {T_meraki_health, T_te_overview, T_xdr_status, T_run_command,
              T_device_list, T_ghost, S_empty}

Cap_health == PlatformCapability(T_meraki_health, <<"observability">>, TRUE, FALSE, FALSE, "meraki")
Cap_health_dup == PlatformCapability(T_meraki_health, <<"observability">>, TRUE, FALSE, FALSE, "infer")
Cap_run == PlatformCapability(T_run_command, <<"automation">>, FALSE, FALSE, TRUE, "catalyst_center")
Cap_overview == PlatformCapability(T_te_overview, <<"security">>, TRUE, FALSE, FALSE, "thousandeyes")
Cap_status == PlatformCapability(T_xdr_status, <<"security">>, TRUE, FALSE, FALSE, "xdr")
Cap_list == PlatformCapability(T_device_list, <<"observability", "configuration">>, TRUE, FALSE, FALSE, "catalyst_center")

RecordUniverse ==
    { OASFRecord(N_a, "meraki", E_a, <<Cap_health, Cap_run>>),
      OASFRecord(N_a, "catalyst_center", E_c, <<Cap_list, Cap_status>>),
      OASFRecord(N_b, "infer", E_b, <<Cap_health_dup, Cap_overview>>),
      OASFRecord(N_b, "xdr", E_c, <<>>) }

SeqsUpTo(S, n) == UNION {[1..k -> S] : k \in 0..n}

RecordLists == SeqsUpTo(RecordUniverse, MaxRecords)

(***************************************************************************)
(* miga_shared/agntcy: DirectoryClient.discover.  The directory either     *)
(* answers with a body that decodes to a record list, or the exchange      *)
(* fails (connection, HTTP status, undecodable body); every Exception is   *)
(* caught and turned into the empty list.                                  *)
(***************************************************************************)
DirectoryOutcomes ==
    {[kind |-> k, records |-> <<>>] : k \in {"connect_error", "http_error", "decode_error"}}
    \cup {[kind |-> "ok", records |-> rs] : rs \in RecordLists}

discover(outcome) ==
    IF outcome.kind = "ok" THEN outcome.records ELSE <<>>

(***************************************************************************)
(* packages/gateway/server.py: _build_static_records.  The *_PORT          *)
(* environment variables are unset, so every port is its default.          *)
(***************************************************************************)
StaticServers ==
  <<
     <<<<"c","a","t","a","l","y","s","t","_","c","e","n","t","e","r","_","m","c","p">>, "catalyst_center", <<"8","0","0","1">>>>,
     <<<<"m","e","r","a","k","i","_","m","c","p">>, "meraki", <<"8","0","0","2">>>>,
     <<<<"t","h","o","u","s","a","n","d","e","y","e","s","_","m","c","p">>, "thousandeyes", <<"8","0","0","3">>>>,
     <<<<"w","e","b","e","x","_","m","c","p">>, "webex", <<"8","0","0","4">>>>,
     <<<<"x","d","r","_","m","c","p">>, "xdr", <<"8","0","0","5">>>>,
     <<<<"s","e","c","u","r","i","t","y","_","c","l","o","u","d","_","c","o","n","t","r","o","l","_","m","c","p">>, "security_cloud_control", <<"8","0","0","6">>>>,
     <<<<"i","n","f","e","r","_","m","c","p">>, "infer", <<"8","0","0","7">>>>,
     <<<<"a","p","p","d","y","n","a","m","i","c","s","_","m","c","p">>, "appdynamics", <<"8","0","0","8">>>>,
     <<<<"n","e","x","u","s","_","d","a","s","h","b","o","a","r","d","_","m","c","p">>, "nexus_dashboard", <<"8","0","0","9">>>>,
     <<<<"s","d","w","a","n","_","m","c","p">>, "sdwan", <<"8","0","1","0">>>>,
     <<<<"i","s","e","_","m","c","p">>, "ise", <<"8","0","1","1">>>>,
     <<<<"s","p","l","u","n","k","_","m","c","p">>, "splunk", <<"8","0","1","2">>>>,
     <<<<"h","y","p","e","r","s","h","i","e","l","d","_","m","c","p">>, "hypershield", <<"8","0","1","3">>>>
  >>

\* fallback records that each declare a health tool
StaticRecordsWithHealthTool ==
    [i \in DOMAIN StaticServers |->
        OASFRecord(StaticServers[i][1], StaticServers[i][2], StaticServers[i][3],
                   <<PlatformCapability(StaticServers[i][1] \o S_health_suffix,
                                        <<"observability">>, TRUE, FALSE, FALSE,
                                        StaticServers[i][2])>>)]

_build_static_records ==
    [i \in DOMAIN StaticServers |->
        LET name == StaticServers[i][1]
            port == StaticServers[i][3]
            host == Replace(name, S_underscore, S_dash)
        IN  OASFRecord(name, StaticServers[i][2], S_http \o host \o S_colon \o port, <<>>)]

(***************************************************************************)
(* packages/gateway/server.py: app_lifespan and its _refresh_loop task.    *)
(***************************************************************************)
\* no _request call in flight
IdleApi ==
    [pc |-> "idle", attempt |-> 0, responses |-> <<>>, sleeps |-> <<>>,
     last_err |-> None, result |-> None]

\* no meta-tool request in flight
IdleRequest ==
    [pc |-> "idle", tool |-> "none", params |-> <<>>, snapshot |-> <<>>,
     role_entries |-> <<>>, entry |-> None, endpoints |-> <<>>,
     tasks |-> <<>>, results |-> <<>>, response |-> <<>>]

Init ==
    /\ by_tool = EmptyDict
    /\ by_role = [r \in MIGARole |-> <<>>]
    /\ by_platform = EmptyDict
    /\ endpoints = <<>>
    /\ last_refresh = 0
    /\ loaded = <<>>
    /\ now = 1
    /\ gw_pc = "startup"
    /\ refresh_pc = "not_started"
    /\ fresh = <<>>
    /\ req = IdleRequest
    /\ calls = <<>>
    /\ served = 0
    /\ bus_log = <<>>
    /\ bus_redis = "none"
    /\ backend_pc = "startup"
    /\ returned = <<>>
    /\ audit_log = <<>>
    /\ event_buffer = <<>>
    /\ ingested = 0
    /\ rca_group = [platforms |-> {}, events |-> <<>>]
    /\ rca_result = None
    /\ rca_pc = "input"
    /\ an_events = <<>>
    /\ an_window = 0
    /\ an_out = <<>>
    /\ an_pc = "input"
    /\ incident_history = <<>>
    /\ anomaly_log = <<>>
    /\ feed = <<>>
    /\ tool_result = [tool |-> "none", out |-> <<>>]
    /\ directory_calls = <<>>
    /\ api = IdleApi
    /\ bot = [pc |-> "typing", text |-> <<>>, words |-> 0, intent |-> None, sent |-> None]
    /\ listener = [pc |-> "listening", handlers |-> <<>>, messages |-> <<>>]
    /\ directory = [kind |-> "connect_error", records |-> <<>>]

\* lines 190-210: discover, static fallback when empty, load, start the task
Startup ==
    /\ gw_pc = "startup"
    /\ \E outcome \in DirectoryOutcomes :
          LET discovered == discover(outcome)
              records == IF discovered = <<>> THEN _build_static_records
                         ELSE discovered
          IN  load_from_oasf(records)
    /\ gw_pc' = "serving"
    /\ refresh_pc' = "sleeping"
    /\ UNCHANGED <<now, fresh, reqVars, nonGateway>>

\* line 202: asyncio.sleep(60) returns; discover() is awaited next
RefreshWake ==
    /\ gw_pc = "serving"
    /\ refresh_pc = "sleeping"
    /\ now <= MaxRefreshes
    /\ now' = now + 1
    /\ refresh_pc' = "discovering"
    /\ UNCHANGED <<tableVars, gw_pc, fresh, reqVars, nonGateway>>

\* the guard of line 205
RefreshLoadsAlways(discovered) == TRUE

RefreshLoads(discovered) == discovered # <<>>

\* a loop that ends when a refresh brought nothing
AfterRefreshEndsOnEmpty(discovered) ==
    IF discovered = <<>> THEN "ended" ELSE "sleeping"

\* lines 201-208: `while True` around a try that absorbs every Exception, so
\* the task sleeps again whatever the refresh brought
AfterRefresh(discovered) == "sleeping"

\* lines 204-206: discover() returns, `if fresh: routing.load_from_oasf(fresh)`
RefreshDiscovered ==
    /\ gw_pc = "serving"
    /\ refresh_pc = "discovering"
    /\ \E outcome \in DirectoryOutcomes :
          /\ fresh' = discover(outcome)
          /\ IF RefreshLoads(fresh')
             THEN load_from_oasf(fresh')
             ELSE UNCHANGED tableVars
    /\ refresh_pc' = AfterRefresh(fresh')
    /\ UNCHANGED <<now, gw_pc, reqVars, nonGateway>>

\* lines 221-225, run once the server has drained its requests:
\* refresh_task.cancel() at either suspension point of the task
Shutdown ==
    /\ gw_pc = "serving"
    /\ req.pc \in {"idle", "done"}
    /\ gw_pc' = "closed"
    /\ refresh_pc' = "cancelled"
    /\ UNCHANGED <<tableVars, now, fresh, reqVars, nonGateway>>

(***************************************************************************)
(* packages/gateway/server.py: MCPForwarder.call_tool.  The HTTP exchange  *)
(* ends in one of four ways; call_tool turns each into a return value and  *)
(* raises nothing.  A return value is [is_error, text]: is_error says that *)
(* it is a dict with an "error" key, text is the message or the payload.   *)
(***************************************************************************)
CallOutcomes == {"result", "rpc_error", "connect_error", "exception"}

call_tool(endpoint, outcome) ==
    CASE outcome = "result" -> [is_error |-> FALSE, text |-> <<"payload">>]
      [] outcome = "rpc_error" -> [is_error |-> TRUE, text |-> <<"rpc error message">>]
      [] outcome = "connect_error" ->
            [is_error |-> TRUE, text |-> <<"Platform server unreachable at ", endpoint>>]
      [] OTHER -> [is_error |-> TRUE, text |-> <<"Forwarding error: ", outcome>>]

\* the (endpoint, tool_name, arguments) of one call_tool invocation
Call(endpoint, tool_name, arguments) ==
    [endpoint |-> endpoint, tool_name |-> tool_name, arguments |-> arguments]

(***************************************************************************)
(* packages/gateway/server.py: RoleQueryInput and _fan_out.                *)
(***************************************************************************)
NoArguments == {}

RoleQueryInput(platforms, tool_name, arguments) ==
    [platforms |-> platforms, tool_name |-> tool_name, arguments |-> arguments]

\* direct-call inputs and broadcast inputs (tool_name absent or empty)
ParamsUniverse ==
    { RoleQueryInput(None, Some(tn), ar) :
        tn \in {T_meraki_health, T_run_command, T_ghost},
        ar \in {NoArguments, {<<"command", "show version">>}} }
    \cup { RoleQueryInput(Some(<<"xdr">>), Some(T_run_command), NoArguments) }
    \cup { RoleQueryInput(pl, None, NoArguments) :
        pl \in {None, Some(<<>>), Some(<<"meraki">>), Some(<<"thousandeyes", "xdr">>)} }
    \cup { RoleQueryInput(None, Some(S_empty), {<<"command", "show version">>}) }

\* Python truthiness of an Optional[str] / Optional[list]
Truthy(opt) == opt # None /\ opt[1] # <<>>

\* line 266: e.platform.value in params.platforms
PlatformSelected(platforms, e) == \E i \in DOMAIN platforms : platforms[i] = e.platform

FilterByPlatforms(entries, platforms) ==
    SelectSeq(entries, LAMBDA e : PlatformSelected(platforms, e))

\* line 274
IsSummaryToolNoStatus(e) ==
    Contains(e.tool_name, S_health) \/ Contains(e.tool_name, S_overview)

IsSummaryTool(e) ==
    \/ Contains(e.tool_name, S_health)
    \/ Contains(e.tool_name, S_overview)
    \/ Contains(e.tool_name, S_status)

\* lines 279-282: one line per entry
ListingLine(e) ==
    [tool_name |-> e.tool_name, platform |-> e.platform, lock |-> e.requires_approval]

\* lines 287-293: one section per (entry, result); an ok text is cut at 500
\* characters, which no payload of the model reaches
SectionHidesError(e, result) ==
    [failed |-> FALSE, platform |-> e.platform, text |-> result.text]

Section(e, result) ==
    [failed |-> result.is_error, platform |-> e.platform, text |-> result.text]

\* line 286: the entry of the i-th section is the one captured in `tasks`
SectionEntryReread(i) ==
    IF req.tasks[i].tool_name \in DOMAIN by_tool
    THEN by_tool[req.tasks[i].tool_name] ELSE req.tasks[i]

SectionEntry(i) == req.tasks[i]

Response(kind, body) == [kind |-> kind, body |-> body]

\* lines 255-284, up to the first suspension point: every read of the routing
\* table the handler makes happens here
FanOutStart(role, params) ==
    /\ gw_pc = "serving"
    /\ req.pc \in {"idle", "done"}
    /\ served < MaxRequests
    /\ LET entries0 == tools_for_role(role)
           base == [IdleRequest EXCEPT !.tool = role, !.params = params,
                                       !.snapshot = loaded,
                                       !.role_entries = entries0]
       IN  IF Truthy(params.tool_name)
           THEN LET entry == get_tool(params.tool_name[1])
                IN  IF entry = None
                    THEN /\ req' = [base EXCEPT !.pc = "done",
                                       !.response = Response("not_found", params.tool_name[1])]
                         /\ calls' = <<>>
                    ELSE /\ req' = [base EXCEPT !.pc = "direct_wait", !.entry = entry]
                         /\ calls' = <<Call(entry[1].endpoint, entry[1].tool_name,
                                           params.arguments)>>
           ELSE LET entries == IF Truthy(params.platforms)
                               THEN FilterByPlatforms(entries0, params.platforms[1])
                               ELSE entries0
                    tasks == SelectSeq(entries, IsSummaryTool)
                IN  IF entries = <<>>
                    THEN /\ req' = [base EXCEPT !.pc = "done",
                                       !.response = Response("no_tools", role)]
                         /\ calls' = <<>>
                    ELSE IF tasks = <<>>
                    THEN /\ req' = [base EXCEPT !.pc = "done",
                                       !.response = Response("listing",
                                           [i \in DOMAIN entries |-> ListingLine(entries[i])])]
                         /\ calls' = <<>>
                    ELSE /\ req' = [base EXCEPT !.pc = "gather_wait",
                                       !.tasks = tasks,
                                       !.results = [i \in DOMAIN tasks |-> None]]
                         /\ calls' = [i \in DOMAIN tasks |->
                                        Call(tasks[i].endpoint, tasks[i].tool_name, NoArguments)]
    /\ served' = served + 1
    /\ UNCHANGED <<tableVars, lifeVars, nonGateway>>

\* lines 262-263: the single forwarded call returns
DirectReturns ==
    /\ req.pc = "direct_wait"
    /\ \E outcome \in CallOutcomes :
          req' = [req EXCEPT !.pc = "done",
                     !.results = <<Some(call_tool(calls[1].endpoint, outcome))>>,
                     !.response = Response("direct", call_tool(calls[1].endpoint, outcome))]
    /\ UNCHANGED <<tableVars, lifeVars, calls, served, nonGateway>>

\* one of the gathered call_tool coroutines finishes, in any order
CallReturns ==
    /\ req.pc = "gather_wait"
    /\ \E i \in DOMAIN req.results, outcome \in CallOutcomes :
          /\ req.results[i] = None
          /\ req' = [req EXCEPT !.results[i] = Some(call_tool(calls[i].endpoint, outcome))]
    /\ UNCHANGED <<tableVars, lifeVars, calls, served, nonGateway>>

\* asyncio.gather(..., return_exceptions=True) resumes its caller when every
\* awaitable has finished
GatherResumes(results) == \A i \in DOMAIN results : results[i] # None

\* lines 284-294
FanOutAggregate ==
    /\ req.pc = "gather_wait"
    /\ GatherResumes(req.results)
    /\ req' = [req EXCEPT !.pc = "done",
                  !.response = Response("summary",
                      [i \in DOMAIN req.tasks |->
                          Section(SectionEntry(i), req.results[i][1])])]
    /\ UNCHANGED <<tableVars, lifeVars, calls, served, nonGateway>>

(***************************************************************************)
(* packages/gateway/server.py: network_status and gateway_health.          *)
(***************************************************************************)
\* line 354
HealthToolName(name) == Replace(name, S_mcp_suffix, S_empty) \o S_health_suffix

\* lines 346-357, up to the gather
NetworkStatusStart ==
    /\ gw_pc = "serving"
    /\ req.pc \in {"idle", "done"}
    /\ served < MaxRequests
    /\ LET eps == all_endpoints
       IN  /\ req' = [IdleRequest EXCEPT !.pc = "status_wait",
                          !.tool = "network_status", !.snapshot = loaded,
                          !.endpoints = eps,
                          !.results = [i \in DOMAIN eps |-> None]]
           /\ calls' = [i \in DOMAIN eps |->
                          Call(eps[i][2], HealthToolName(eps[i][1]), NoArguments)]
    /\ served' = served + 1
    /\ UNCHANGED <<tableVars, lifeVars, nonGateway>>

\* the outcomes of the n health probes of one network_status request
StatusOutcomes(n) ==
    {[i \in 1..n |-> o] : o \in CallOutcomes}
    \cup {[i \in 1..n |-> IF i = 1 THEN "connect_error" ELSE "result"]}

\* lines 357-364: the gather over the health probes returns
NetworkStatusFinish ==
    /\ req.pc = "status_wait"
    /\ \E outcomes \in StatusOutcomes(Len(calls)) :
        LET results == [i \in DOMAIN calls |-> Some(call_tool(calls[i].endpoint, outcomes[i]))]
        IN
          req' = [req EXCEPT !.pc = "done", !.results = results,
                  !.response = Response("status",
                      [servers |-> Len(req.endpoints),
                       lines |-> [i \in DOMAIN req.endpoints |->
                                    [name |-> req.endpoints[i][1],
                                     healthy |-> ~results[i][1].is_error]]])]
    /\ UNCHANGED <<tableVars, lifeVars, calls, served, nonGateway>>

\* lines 372-388: no suspension point
GatewayHealth ==
    /\ gw_pc = "serving"
    /\ req.pc \in {"idle", "done"}
    /\ served < MaxRequests
    /\ req' = [IdleRequest EXCEPT !.pc = "done", !.tool = "gateway_health",
                  !.snapshot = loaded, !.endpoints = all_endpoints,
                  !.response = Response("health",
                      [servers |-> Len(all_endpoints),
                       tools |-> Cardinality(DOMAIN by_tool),
                       last_refresh |-> last_refresh,
                       endpoints |-> all_endpoints])]
    /\ calls' = <<>>
    /\ served' = served + 1
    /\ UNCHANGED <<tableVars, lifeVars, nonGateway>>

Next ==
    \/ Startup
    \/ RefreshWake
    \/ RefreshDiscovered
    \/ Shutdown
    \/ \E role \in MIGARole, params \in ParamsUniverse : FanOutStart(role, params)
    \/ DirectReturns
    \/ CallReturns
    \/ FanOutAggregate
    \/ NetworkStatusStart
    \/ NetworkStatusFinish
    \/ GatewayHealth

Spec == Init /\ [][Next]_vars

\* the routing table's life without requests: startup, refresh loop, shutdown
NextRouting ==
    \/ Startup
    \/ RefreshWake
    \/ RefreshDiscovered
    \/ Shutdown

SpecRouting == Init /\ [][NextRouting]_vars

(***************************************************************************)
(* The refresh loop against a directory whose answer changes over time.    *)
(* The clock stops at its bound; the loop goes on waking.                  *)
(***************************************************************************)
LiveDirectories ==
    { [kind |-> "ok", records |-> <<OASFRecord(N_a, "meraki", E_a, <<Cap_health, Cap_run>>)>>],
      [kind |-> "ok", records |-> <<OASFRecord(N_b, "infer", E_b, <<Cap_health_dup, Cap_overview>>),
                                    OASFRecord(N_b, "xdr", E_c, <<>>)>>] }

DirectoryStates ==
    LiveDirectories \cup { [kind |-> "connect_error", records |-> <<>>],
                           [kind |-> "ok", records |-> <<>>] }

\* the directory service changes its answer
DirectoryChange ==
    /\ \E d \in DirectoryStates \ {directory} : directory' = d
    /\ UNCHANGED <<gatewayVars, backendVars, inferVars, toolVars, clientVars, bot, listener>>

\* line 202 once the clock has reached its bound
RefreshWakeLate ==
    /\ gw_pc = "serving"
    /\ refresh_pc = "sleeping"
    /\ now > MaxRefreshes
    /\ refresh_pc' = "discovering"
    /\ UNCHANGED <<tableVars, now, gw_pc, fresh, reqVars, nonGateway>>

\* lines 204-206 with the answer the directory gives at that moment
RefreshFromDirectory == RefreshDiscovered /\ fresh' = discover(directory)

NextRefresh ==
    \/ Startup
    \/ RefreshWake
    \/ RefreshWakeLate
    \/ RefreshFromDirectory
    \/ DirectoryChange
    \/ Shutdown

\* app_lifespan runs to its yield, asyncio.sleep(60) returns, and discover()
\* returns within the client's timeout
SpecRefresh ==
    /\ Init
    /\ [][NextRefresh]_vars
    /\ WF_vars(Startup)
    /\ WF_vars(RefreshWake \/ RefreshWakeLate)
    /\ WF_vars(RefreshFromDirectory)

(***************************************************************************)
(* Platform servers: the tools whose capability asks for approval or is    *)
(* destructive, and the Redis bus they publish on.                         *)
(* catalyst_center_mcp, ise_mcp, xdr_mcp, servicenow_mcp; miga_shared      *)
(* server_base.miga_lifespan and utils/redis_bus.RedisPubSub.              *)
(***************************************************************************)
T_quarantine == <<"i", "s", "e", "_", "q", "u", "a", "r", "a", "n", "t", "i", "n", "e", "_", "e", "n", "d", "p", "o", "i", "n", "t">>
T_response_actions == <<"x", "d", "r", "_", "r", "e", "s", "p", "o", "n", "s", "e", "_", "a", "c", "t", "i", "o", "n", "s">>
T_create_incident == <<"s", "n", "o", "w", "_", "c", "r", "e", "a", "t", "e", "_", "i", "n", "c", "i", "d", "e", "n", "t">>
T_update_incident == <<"s", "n", "o", "w", "_", "u", "p", "d", "a", "t", "e", "_", "i", "n", "c", "i", "d", "e", "n", "t">>
T_get_incident == <<"s", "n", "o", "w", "_", "g", "e", "t", "_", "i", "n", "c", "i", "d", "e", "n", "t">>

\* the capability declarations of the four servers' OASF records
BackendCapabilities ==
    { PlatformCapability(T_run_command, <<"automation">>, FALSE, FALSE, TRUE, "catalyst_center"),
      PlatformCapability(T_quarantine, <<"security">>, FALSE, TRUE, TRUE, "ise"),
      PlatformCapability(T_response_actions, <<"security">>, FALSE, FALSE, TRUE, "xdr"),
      PlatformCapability(T_create_incident, <<"automation">>, FALSE, FALSE, TRUE, "servicenow"),
      PlatformCapability(T_update_incident, <<"automation">>, FALSE, FALSE, TRUE, "servicenow"),
      PlatformCapability(T_get_incident, <<"observability">>, TRUE, FALSE, FALSE, "servicenow") }

\* RedisPubSub.connect: _redis is set unless the import or from_url fails
BusConnect ==
    /\ backend_pc = "startup"
    /\ \E client \in {"client", "none"} : bus_redis' = client
    /\ backend_pc' = "idle"
    /\ UNCHANGED <<gatewayVars, extVars, clientVars, toolVars, inferVars, bus_log, returned, audit_log>>

PublishOutcomes == {"delivered", "redis_error"}

\* RedisPubSub.publish: 0 without a client or when redis raises
publish(channel, data, outcome) ==
    IF bus_redis = "client" /\ outcome = "delivered"
    THEN Append(bus_log, [channel |-> channel] @@ data)
    ELSE bus_log

request_approval(data, outcome) == publish("miga:approval:request", data, outcome)

Invocation(tool_name, raised) == [tool |-> tool_name, raised |-> raised]

CanInvoke == backend_pc = "idle" /\ Len(returned) < MaxInvocations

\* the envelope run_command hands to request_approval
RunCommandApproval(command) ==
    [tool |-> T_run_command, command |-> command, platform |-> "catalyst_center",
     keys |-> {"tool", "command", "device_ids", "platform"}]

\* catalyst_run_command up to its second await: publish, then post
RunCommandPublish ==
    /\ CanInvoke
    /\ \E command \in {"show version", "reload"}, outcome \in PublishOutcomes :
          bus_log' = request_approval(RunCommandApproval(command), outcome)
    /\ backend_pc' = "run_command_post"
    /\ UNCHANGED <<gatewayVars, extVars, clientVars, toolVars, inferVars, bus_redis, returned, audit_log>>

\* catalyst_run_command: api.post answers or raises
RunCommandPost ==
    /\ backend_pc = "run_command_post"
    /\ \E raised \in BOOLEAN : returned' = Append(returned, Invocation(T_run_command, raised))
    /\ backend_pc' = "idle"
    /\ UNCHANGED <<gatewayVars, extVars, clientVars, toolVars, inferVars, bus_log, bus_redis, audit_log>>

\* ise_quarantine_endpoint, snow_create_incident, snow_update_incident: stubs
\* that return a canned document
StubTools == {T_quarantine, T_create_incident, T_update_incident}

StubInvoke ==
    /\ CanInvoke
    /\ \E t \in StubTools : returned' = Append(returned, Invocation(t, FALSE))
    /\ UNCHANGED <<gatewayVars, extVars, clientVars, toolVars, inferVars, bus_log, bus_redis, backend_pc, audit_log>>

\* xdr_response_actions: one api.get, then the list
ResponseActionsGet ==
    /\ CanInvoke
    /\ backend_pc' = "response_actions_get"
    /\ UNCHANGED <<gatewayVars, extVars, clientVars, toolVars, inferVars, bus_log, bus_redis, returned, audit_log>>

ResponseActionsReturn ==
    /\ backend_pc = "response_actions_get"
    /\ \E raised \in BOOLEAN :
          returned' = Append(returned, Invocation(T_response_actions, raised))
    /\ backend_pc' = "idle"
    /\ UNCHANGED <<gatewayVars, extVars, clientVars, toolVars, inferVars, bus_log, bus_redis, audit_log>>

NextBackend ==
    \/ BusConnect
    \/ RunCommandPublish
    \/ RunCommandPost
    \/ StubInvoke
    \/ ResponseActionsGet
    \/ ResponseActionsReturn

SpecBackend == Init /\ [][NextBackend]_vars

(***************************************************************************)
(* infer_mcp: the ingest handlers app_lifespan subscribes to the bus.      *)
(* A bus message is a dict; a key it lacks is None here.                   *)
(***************************************************************************)
SeverityLevel == {"critical", "high", "medium", "low", "info"}

MaxIngest == BufferLimit + 2

CorrelatedMessages ==
    { [event_id |-> Some(<<"e1", 0>>), source_platform |-> Some("meraki"),
       event_type |-> Some("vpn_tunnel_flap"), severity |-> Some("low")],
      [event_id |-> None, source_platform |-> Some("thousandeyes"),
       event_type |-> Some("path_loss"), severity |-> None],
      [event_id |-> None, source_platform |-> Some("bogus"),
       event_type |-> Some("path_loss"), severity |-> Some("high")] }

AlertMessages ==
    { [source |-> None, event_type |-> None, severity |-> None],
      [source |-> Some("ise"), event_type |-> Some("quarantine"), severity |-> Some("urgent")] }

Get(opt, default) == IF opt = None THEN default ELSE opt[1]

\* CorrelatedEvent(**data): pydantic validation of the fields the model keeps
Validates(source_platform, event_type, severity) ==
    /\ source_platform # None /\ source_platform[1] \in PlatformType
    /\ event_type # None
    /\ severity \in SeverityLevel

\* event_id defaults to a fresh uuid4
CorrelatedEvent(event_id, source_platform, event_type, severity) ==
    [event_id |-> event_id, source_platform |-> source_platform,
     event_type |-> event_type, severity |-> severity]

FreshId == <<"uuid4", ingested>>

IngestChannels == {<<"miga:events", "correlated">>} \cup {<<"miga:telemetry", p>> : p \in PlatformType}

\* _on_correlated_event, subscribed to events:correlated and telemetry:<platform>
OnCorrelatedEvent ==
    /\ ingested < MaxIngest
    /\ ingested' = ingested + 1
    /\ \E channel \in IngestChannels, data \in CorrelatedMessages :
          IF Validates(data.source_platform, data.event_type, Get(data.severity, "info"))
          THEN LET event == CorrelatedEvent(Get(data.event_id, FreshId),
                                            data.source_platform[1], data.event_type[1],
                                            Get(data.severity, "info"))
                   appended == Append(event_buffer, event)
               IN  event_buffer' =
                       IF Len(appended) > BufferLimit
                       THEN SubSeq(appended, Len(appended) - BufferKeep + 1, Len(appended))
                       ELSE appended
          ELSE UNCHANGED event_buffer
    /\ UNCHANGED <<gatewayVars, extVars, clientVars, toolVars, backendVars, rcaVars, analysisVars>>

\* _on_security_alert, subscribed to alerts:security
OnSecurityAlert ==
    /\ ingested < MaxIngest
    /\ ingested' = ingested + 1
    /\ \E data \in AlertMessages :
          IF Validates(Some(Get(data.source, "xdr")), Some(Get(data.event_type, "security_alert")),
                       Get(data.severity, "medium"))
          THEN event_buffer' =
                   Append(event_buffer,
                          CorrelatedEvent(FreshId, Get(data.source, "xdr"),
                                          Get(data.event_type, "security_alert"),
                                          Get(data.severity, "medium")))
          ELSE UNCHANGED event_buffer
    /\ UNCHANGED <<gatewayVars, extVars, clientVars, toolVars, backendVars, rcaVars, analysisVars>>

NextIngest == OnCorrelatedEvent \/ OnSecurityAlert

SpecIngest == Init /\ [][NextIngest]_vars

(***************************************************************************)
(* infer_mcp: ROOT_CAUSE_TEMPLATES, _severity_rank and match_root_cause.   *)
(* Severities are sequences of characters, since _severity_rank lowers     *)
(* them before the lookup.                                                 *)
(***************************************************************************)
S_critical == <<"c", "r", "i", "t", "i", "c", "a", "l">>
S_high == <<"h", "i", "g", "h">>
S_HIGH == <<"H", "I", "G", "H">>
S_medium == <<"m", "e", "d", "i", "u", "m">>
S_low == <<"l", "o", "w">>
S_info == <<"i", "n", "f", "o">>

UpperLetters == <<"A","B","C","D","E","F","G","H","I","J","K","L","M",
                  "N","O","P","Q","R","S","T","U","V","W","X","Y","Z">>
LowerLetters == <<"a","b","c","d","e","f","g","h","i","j","k","l","m",
                  "n","o","p","q","r","s","t","u","v","w","x","y","z">>

\* str.lower()
Lower(s) ==
    [i \in DOMAIN s |->
        IF \E k \in DOMAIN UpperLetters : UpperLetters[k] = s[i]
        THEN LowerLetters[CHOOSE k \in DOMAIN UpperLetters : UpperLetters[k] = s[i]]
        ELSE s[i]]

_severity_rank(sev) ==
    LET s == Lower(sev)
    IN  CASE s = S_critical -> 5
          [] s = S_high -> 4
          [] s = S_medium -> 3
          [] s = S_low -> 2
          [] s = S_info -> 1
          [] OTHER -> 0

Signal(platform, event_type, min_severity) ==
    [platform |-> platform, event_type |-> event_type, min_severity |-> min_severity]

ROOT_CAUSE_TEMPLATES ==
    << [id |-> "rca-wan-app-slowdown",
        signal_pattern |-> << Signal("thousandeyes", "path_loss", S_medium),
                              Signal("meraki", "vpn_tunnel_flap", S_low) >>],
       [id |-> "rca-switch-wireless-impact",
        signal_pattern |-> << Signal("catalyst_center", "device_unreachable", S_high),
                              Signal("meraki", "ap_offline", S_medium) >>],
       [id |-> "rca-lateral-movement",
        signal_pattern |-> << Signal("xdr", "suspicious_traffic", S_medium),
                              Signal("meraki", "new_flow_spike", S_low) >>],
       [id |-> "rca-dns-cascade",
        signal_pattern |-> << Signal("thousandeyes", "dns_failure", S_high),
                              Signal("meraki", "client_connectivity_drop", S_medium) >>],
       [id |-> "rca-cert-expiry-cascade",
        signal_pattern |-> << Signal("security_cloud_control", "certificate_expiry", S_medium) >>] >>

\* the inner loop: an event of the group answers the signal
SignalMatchedLastOnly(signal, events) ==
    /\ events # <<>>
    /\ events[Len(events)].source_platform = Some(signal.platform)
    /\ _severity_rank(Get(events[Len(events)].severity, S_info))
           >= _severity_rank(signal.min_severity)

SignalMatched(signal, events) ==
    \E i \in DOMAIN events :
        /\ events[i].source_platform = Some(signal.platform)
        /\ _severity_rank(Get(events[i].severity, S_info)) >= _severity_rank(signal.min_severity)

match_count(template, events) ==
    Cardinality({k \in DOMAIN template.signal_pattern :
                    SignalMatched(template.signal_pattern[k], events)})

TemplateMatches(template, group) ==
    /\ {template.signal_pattern[k].platform : k \in DOMAIN template.signal_pattern}
           \subseteq group.platforms
    /\ match_count(template, group.events) = Len(template.signal_pattern)

\* confidence is 0.85 + 0.05 * match_count, kept in hundredths
match_root_cause(group) ==
    LET hits == {k \in DOMAIN ROOT_CAUSE_TEMPLATES :
                    TemplateMatches(ROOT_CAUSE_TEMPLATES[k], group)}
    IN  IF hits = {} THEN None
        ELSE LET k == CHOOSE k \in hits : \A j \in hits : k <= j
                 t == ROOT_CAUSE_TEMPLATES[k]
             IN  Some([template_id |-> t.id,
                       confidence |-> 85 + 5 * match_count(t, group.events),
                       matched_signals |-> Len(t.signal_pattern)])

GroupEvent(source_platform, event_type, severity) ==
    [source_platform |-> source_platform, event_type |-> event_type, severity |-> severity]

GroupEvents ==
    { GroupEvent(Some("thousandeyes"), Some("path_loss"), Some(S_medium)),
      GroupEvent(Some("thousandeyes"), Some("dns_failure"), Some(S_HIGH)),
      GroupEvent(Some("thousandeyes"), Some("dns_failure"), Some(S_high)),
      GroupEvent(Some("meraki"), Some("vpn_tunnel_flap"), Some(S_low)),
      GroupEvent(Some("meraki"), Some("client_connectivity_drop"), Some(S_medium)),
      GroupEvent(Some("security_cloud_control"), Some("certificate_expiry"), None),
      GroupEvent(Some("security_cloud_control"), Some("certificate_expiry"), Some(S_critical)) }

GroupPlatforms == SUBSET {"thousandeyes", "meraki", "security_cloud_control"}

ChooseGroup ==
    /\ rca_pc = "input"
    /\ \E platforms \in GroupPlatforms, events \in SeqsUpTo(GroupEvents, MaxEvents) :
          rca_group' = [platforms |-> platforms, events |-> events]
    /\ rca_pc' = "chosen"
    /\ UNCHANGED <<gatewayVars, extVars, clientVars, toolVars, backendVars, ingestVars, analysisVars, rca_result>>

MatchRootCause ==
    /\ rca_pc = "chosen"
    /\ rca_result' = match_root_cause(rca_group)
    /\ rca_pc' = "matched"
    /\ UNCHANGED <<gatewayVars, extVars, clientVars, toolVars, backendVars, ingestVars, analysisVars, rca_group>>

NextRCA == ChooseGroup \/ MatchRootCause

SpecRCA == Init /\ [][NextRCA]_vars

\* match_root_cause applied again to the group with one more event, whose
\* platform joins the group's platforms
ExtendGroup ==
    /\ rca_pc = "matched"
    /\ \E e \in GroupEvents :
          LET extended == [platforms |-> rca_group.platforms \cup {e.source_platform[1]},
                           events |-> Append(rca_group.events, e)]
          IN  /\ rca_group' = extended
              /\ rca_result' = match_root_cause(extended)
    /\ rca_pc' = "extended"
    /\ UNCHANGED <<gatewayVars, extVars, clientVars, toolVars, backendVars, ingestVars, analysisVars>>

NextRCAExtend == NextRCA \/ ExtendGroup

SpecRCAExtend == Init /\ [][NextRCAExtend]_vars

(***************************************************************************)
(* infer_mcp: correlate_events and CorrelatedEvent.overlaps_with.          *)
(* Timestamps are seconds; an event here carries the fields the analysis   *)
(* functions read.                                                         *)
(***************************************************************************)
TimedEvent(event_id, source_platform, event_type, severity, timestamp, affected_entities) ==
    [event_id |-> event_id, source_platform |-> source_platform,
     event_type |-> event_type, severity |-> severity,
     timestamp |-> timestamp, affected_entities |-> affected_entities]

Abs(x) == IF x < 0 THEN -x ELSE x

\* overlaps_with without the time window
OverlapsEntitiesOnly(a, b, window_seconds) ==
    a.affected_entities \cap b.affected_entities # {}

overlaps_with(a, b, window_seconds) ==
    /\ Abs(a.timestamp - b.timestamp) <= window_seconds
    /\ a.affected_entities \cap b.affected_entities # {}

\* sorted(events, key=lambda e: e.timestamp): stable, so equal timestamps keep
\* their input order
RECURSIVE InsertByTimestamp(_, _)
InsertByTimestamp(sorted, e) ==
    IF sorted = <<>> THEN <<e>>
    ELSE IF sorted[Len(sorted)].timestamp <= e.timestamp THEN Append(sorted, e)
    ELSE Append(InsertByTimestamp(SubSeq(sorted, 1, Len(sorted) - 1), e), sorted[Len(sorted)])

RECURSIVE SortByTimestamp(_)
SortByTimestamp(evs) ==
    IF evs = <<>> THEN <<>>
    ELSE InsertByTimestamp(SortByTimestamp(SubSeq(evs, 1, Len(evs) - 1)), evs[Len(evs)])

Reverse(seq) == [i \in DOMAIN seq |-> seq[Len(seq) + 1 - i]]

\* the indexes of a set, in increasing order
RECURSIVE Ascending(_)
Ascending(S) ==
    IF S = {} THEN <<>>
    ELSE LET m == CHOOSE x \in S : \A y \in S : x <= y
         IN  <<m>> \o Ascending(S \ {m})

\* `if len(group) > 1`
GroupKeptAlways(group) == TRUE

GroupKept(group) == Len(group) > 1

\* the outer loop from index i on, `used` being the indexes already grouped
RECURSIVE SeedGroups(_, _, _, _)
SeedGroups(sorted_events, window_seconds, i, used) ==
    IF i > Len(sorted_events) THEN <<>>
    ELSE IF i \in used THEN SeedGroups(sorted_events, window_seconds, i + 1, used)
    ELSE LET joined == {j \in (i + 1)..Len(sorted_events) :
                           /\ j \notin used
                           /\ overlaps_with(sorted_events[i], sorted_events[j], window_seconds)}
             group == <<i>> \o Ascending(joined)
         IN  (IF GroupKept(group) THEN <<group>> ELSE <<>>)
             \o SeedGroups(sorted_events, window_seconds, i + 1, used \cup {i} \cup joined)

\* max(group, key=rank): the first event of the highest rank
MaxSeverity(group) ==
    LET rank(k) == _severity_rank(group[k].severity)
        k == CHOOSE k \in DOMAIN group :
                /\ \A j \in DOMAIN group : rank(j) <= rank(k)
                /\ \A j \in 1..(k - 1) : rank(j) < rank(k)
    IN  group[k].severity

CorrelationGroup(group) ==
    [event_count |-> Len(group),
     platforms |-> {group[k].source_platform : k \in DOMAIN group},
     severity |-> MaxSeverity(group),
     time_span_seconds |-> group[Len(group)].timestamp - group[1].timestamp,
     affected_entities |-> UNION {group[k].affected_entities : k \in DOMAIN group},
     events |-> group]

correlate_events(evs, window_seconds) ==
    IF evs = <<>> THEN <<>>
    ELSE LET sorted_events == SortByTimestamp(evs)
             groups == SeedGroups(sorted_events, window_seconds, 1, {})
         IN  [g \in DOMAIN groups |->
                 CorrelationGroup([k \in DOMAIN groups[g] |-> sorted_events[groups[g][k]]])]

CorrelateEvents ==
    { TimedEvent("x", "meraki", "vpn_tunnel_flap", S_low, 0, {"sw1"}),
      TimedEvent("y", "thousandeyes", "path_loss", S_medium, 0, {"sw1", "wan1"}),
      TimedEvent("z", "catalyst_center", "device_unreachable", S_high, 0, {"wan1"}),
      TimedEvent("u", "meraki", "ap_offline", S_medium, 200, {"sw1"}),
      TimedEvent("v", "xdr", "suspicious_traffic", S_critical, 100, {}) }

CorrelateWindows == {300, 200, 60}

ChooseCorrelateInput ==
    /\ an_pc = "input"
    /\ \E evs \in SeqsUpTo(CorrelateEvents, MaxCorrelate), w \in CorrelateWindows :
          /\ an_events' = evs
          /\ an_window' = w
    /\ an_pc' = "chosen"
    /\ UNCHANGED <<gatewayVars, extVars, clientVars, toolVars, backendVars, ingestVars, rcaVars, an_out>>

\* correlate_events applied to the list and to the list reversed
Correlate ==
    /\ an_pc = "chosen"
    /\ an_out' = [groups |-> correlate_events(an_events, an_window),
                  reversed |-> correlate_events(Reverse(an_events), an_window)]
    /\ an_pc' = "correlate_events"
    /\ UNCHANGED <<gatewayVars, extVars, clientVars, toolVars, backendVars, ingestVars, rcaVars, an_events, an_window>>

NextCorrelate == ChooseCorrelateInput \/ Correlate

SpecCorrelate == Init /\ [][NextCorrelate]_vars

(***************************************************************************)
(* infer_mcp: detect_anomalies.  Timestamps are whole seconds, and the     *)
(* float comparisons of the source are made exactly, on integers: for n    *)
(* intervals of sum S and sum of squares Q, with r the last one,           *)
(*     mean = S/n,  variance = (n*Q - S*S)/n^2,                            *)
(*     r < mean - 2*std_dev  iff  S - n*r > 0 and (S - n*r)^2 > 4*(n*Q - S*S)*)
(***************************************************************************)
ANOMALY_SENSITIVITY == 85   \* hundredths

RECURSIVE SumSeq(_)
SumSeq(xs) == IF xs = <<>> THEN 0 ELSE xs[1] + SumSeq(Tail(xs))

BucketKey(e) == <<e.source_platform, e.event_type>>

\* the keys of `buckets`, in insertion order
RECURSIVE BucketKeys(_)
BucketKeys(evs) ==
    IF evs = <<>> THEN <<>>
    ELSE LET front == BucketKeys(SubSeq(evs, 1, Len(evs) - 1))
             key == BucketKey(evs[Len(evs)])
         IN  IF \E k \in DOMAIN front : front[k] = key THEN front ELSE Append(front, key)

\* sorted(timestamps) of one bucket
SortedTimestamps(evs, key) ==
    LET bucket == SortByTimestamp(SelectSeq(evs, LAMBDA e : BucketKey(e) = key))
    IN  [k \in DOMAIN bucket |-> bucket[k].timestamp]

Intervals(sorted_ts) ==
    [i \in 1..(Len(sorted_ts) - 1) |-> sorted_ts[i + 1] - sorted_ts[i]]

\* n * (mean_interval - recent_interval) and n^2 * variance
MeanGap(intervals) == SumSeq(intervals) - Len(intervals) * intervals[Len(intervals)]

ScaledVariance(intervals) ==
    Len(intervals) * SumSeq([i \in DOMAIN intervals |-> intervals[i] * intervals[i]])
        - SumSeq(intervals) * SumSeq(intervals)

\* `std_dev > 0 and recent_interval < (mean_interval - 2 * std_dev)`
IsSpikeOneSigma(intervals) ==
    /\ ScaledVariance(intervals) > 0
    /\ MeanGap(intervals) > 0
    /\ MeanGap(intervals) * MeanGap(intervals) > ScaledVariance(intervals)

IsSpike(intervals) ==
    /\ ScaledVariance(intervals) > 0
    /\ MeanGap(intervals) > 0
    /\ MeanGap(intervals) * MeanGap(intervals) > 4 * ScaledVariance(intervals)

Min(a, b) == IF a <= b THEN a ELSE b

\* mean_interval is kept as the pair (sum, count) of the intervals
Anomaly(key, intervals) ==
    [platform |-> key[1], event_type |-> key[2], pattern |-> "frequency_spike",
     interval_sum |-> SumSeq(intervals), interval_count |-> Len(intervals),
     recent_interval_seconds |-> intervals[Len(intervals)],
     confidence |-> Min(95, ANOMALY_SENSITIVITY + 5),
     severity |-> IF 5 * Len(intervals) * intervals[Len(intervals)] < SumSeq(intervals)
                  THEN "high" ELSE "medium"]

\* one iteration of `for key, timestamps in buckets.items()`
BucketAnomalies(evs, key) ==
    LET sorted_ts == SortedTimestamps(evs, key)
        intervals == Intervals(sorted_ts)
    IN  IF Len(sorted_ts) < 3 THEN <<>>
        ELSE IF SumSeq(intervals) = 0 THEN <<>>
        ELSE IF IsSpike(intervals) THEN <<Anomaly(key, intervals)>>
        ELSE <<>>

RECURSIVE AnomaliesOf(_, _)
AnomaliesOf(evs, keys) ==
    IF keys = <<>> THEN <<>>
    ELSE BucketAnomalies(evs, keys[1]) \o AnomaliesOf(evs, Tail(keys))

detect_anomalies(evs) ==
    IF Len(evs) < 5 THEN <<>> ELSE AnomaliesOf(evs, BucketKeys(evs))

\* the next event of the input: its key, and its timestamp relative to the
\* event before it
AnomalySteps ==
    { [platform |-> "meraki", event_type |-> "vpn_tunnel_flap", gap |-> 0],
      [platform |-> "meraki", event_type |-> "vpn_tunnel_flap", gap |-> 2],
      [platform |-> "meraki", event_type |-> "vpn_tunnel_flap", gap |-> -1],
      [platform |-> "thousandeyes", event_type |-> "path_loss", gap |-> 0] }

LastTimestamp == IF an_events = <<>> THEN 0 ELSE an_events[Len(an_events)].timestamp

AppendAnomalyInput ==
    /\ an_pc \in {"input", "building"}
    /\ Len(an_events) < MaxAnomalyEvents
    /\ \E step \in AnomalySteps :
          an_events' = Append(an_events,
              TimedEvent(ToString(Len(an_events) + 1), step.platform, step.event_type,
                         S_medium, LastTimestamp + step.gap, {}))
    /\ an_pc' = "building"
    /\ UNCHANGED <<gatewayVars, extVars, clientVars, toolVars, backendVars, ingestVars, rcaVars, an_window, an_out>>

DetectAnomalies ==
    /\ an_pc \in {"input", "building"}
    /\ an_out' = detect_anomalies(an_events)
    /\ an_pc' = "detect_anomalies"
    /\ UNCHANGED <<gatewayVars, extVars, clientVars, toolVars, backendVars, ingestVars, rcaVars, an_events, an_window>>

NextAnomaly == AppendAnomalyInput \/ DetectAnomalies

SpecAnomaly == Init /\ [][NextAnomaly]_vars

(***************************************************************************)
(* infer_mcp: predict_failures.  Confidences are in hundredths.  The       *)
(* `history` argument is not read by the code.                             *)
(***************************************************************************)
current_platforms(evs) == {evs[k].source_platform : k \in DOMAIN evs}

\* platform_counts[platform] after the counting loop
HighCount(evs, platform) ==
    Cardinality({k \in DOMAIN evs : /\ evs[k].source_platform = platform
                                     /\ _severity_rank(evs[k].severity) >= 4})

\* the keys of platform_counts, in insertion order
RECURSIVE CountedPlatforms(_)
CountedPlatforms(evs) ==
    IF evs = <<>> THEN <<>>
    ELSE LET front == CountedPlatforms(SubSeq(evs, 1, Len(evs) - 1))
             e == evs[Len(evs)]
         IN  IF \/ _severity_rank(e.severity) < 4
                \/ \E k \in DOMAIN front : front[k] = e.source_platform
             THEN front ELSE Append(front, e.source_platform)

CascadingFailure(platform, count) ==
    [type |-> "cascading_failure", risk_level |-> "high",
     confidence |-> Min(90, 60 + count * 10),
     affected_platform |-> platform, time_horizon_minutes |-> 30]

RECURSIVE CascadingFailures(_, _)
CascadingFailures(evs, platforms) ==
    IF platforms = <<>> THEN <<>>
    ELSE (IF HighCount(evs, platforms[1]) >= 3
          THEN <<CascadingFailure(platforms[1], HighCount(evs, platforms[1]))>>
          ELSE <<>>) \o CascadingFailures(evs, Tail(platforms))

\* `any(_severity_rank(s) >= 3 for s in current_severities)`
AnyEscalatedHighOnly(evs) == \E k \in DOMAIN evs : _severity_rank(evs[k].severity) >= 4

AnyEscalated(evs) == \E k \in DOMAIN evs : _severity_rank(evs[k].severity) >= 3

ComplexIncident(evs) ==
    [type |-> "complex_incident",
     risk_level |-> IF Cardinality(current_platforms(evs)) >= 4 THEN "critical" ELSE "high",
     confidence |-> 70, affected_platforms |-> current_platforms(evs),
     time_horizon_minutes |-> 15]

predict_failures(evs) ==
    CascadingFailures(evs, CountedPlatforms(evs))
        \o (IF Cardinality(current_platforms(evs)) >= 3 /\ AnyEscalated(evs)
            THEN <<ComplexIncident(evs)>> ELSE <<>>)

PredictSteps ==
    { [platform |-> "meraki", severity |-> S_critical],
      [platform |-> "meraki", severity |-> S_low],
      [platform |-> "thousandeyes", severity |-> S_high],
      [platform |-> "xdr", severity |-> S_medium],
      [platform |-> "xdr", severity |-> S_low],
      [platform |-> "splunk", severity |-> S_info] }

AppendPredictInput ==
    /\ an_pc \in {"input", "building"}
    /\ Len(an_events) < MaxPredictEvents
    /\ \E step \in PredictSteps :
          an_events' = Append(an_events,
              TimedEvent(ToString(Len(an_events) + 1), step.platform, "alert",
                         step.severity, 0, {}))
    /\ an_pc' = "building"
    /\ UNCHANGED <<gatewayVars, extVars, clientVars, toolVars, backendVars, ingestVars, rcaVars, an_window, an_out>>

PredictFailures ==
    /\ an_pc \in {"input", "building"}
    /\ an_out' = predict_failures(an_events)
    /\ an_pc' = "predict_failures"
    /\ UNCHANGED <<gatewayVars, extVars, clientVars, toolVars, backendVars, ingestVars, rcaVars, an_events, an_window>>

NextPredict == AppendPredictInput \/ PredictFailures

SpecPredict == Init /\ [][NextPredict]_vars

(***************************************************************************)
(* infer_mcp: the infer_network_risk_score tool.  Timestamps are seconds   *)
(* relative to the clock of the tool invocations.                          *)
(***************************************************************************)
SeverityWeight(severity) ==
    CASE severity = S_critical -> 15
      [] severity = S_high -> 8
      [] severity = S_medium -> 3
      [] severity = S_low -> 1
      [] severity = S_info -> 0
      [] OTHER -> 0

\* `(now - e.timestamp).total_seconds() < 3600`
recent_events(buffer) == SelectSeq(buffer, LAMBDA e : 0 - e.timestamp < 3600)

event_score(buffer) ==
    LET recent == recent_events(buffer)
    IN  Min(60, SumSeq([k \in DOMAIN recent |-> SeverityWeight(recent[k].severity)]))

anomaly_score(log, include_anomalies) ==
    IF include_anomalies
    THEN Min(20, 5 * Len(SelectSeq(log, LAMBDA a : a.confidence >= 70)))
    ELSE 0

RiskLevelWeight(p) ==
    IF p.risk_level = "critical" THEN 15 ELSE IF p.risk_level = "high" THEN 8 ELSE 0

prediction_score(buffer, include_predictions) ==
    IF include_predictions
    THEN LET predictions == predict_failures(recent_events(buffer))
         IN  Min(20, SumSeq([k \in DOMAIN predictions |-> RiskLevelWeight(predictions[k])]))
    ELSE 0

RiskTierModerateFrom25(total) ==
    IF total < 25 THEN "LOW" ELSE IF total <= 50 THEN "MODERATE"
    ELSE IF total <= 75 THEN "ELEVATED" ELSE "CRITICAL"

RiskTier(total) ==
    IF total <= 25 THEN "LOW" ELSE IF total <= 50 THEN "MODERATE"
    ELSE IF total <= 75 THEN "ELEVATED" ELSE "CRITICAL"

\* the numbers the returned text shows
network_risk_score(buffer, log, history, include_predictions, include_anomalies) ==
    LET recent == recent_events(buffer)
        events == event_score(buffer)
        anomalies == anomaly_score(log, include_anomalies)
        predictions == prediction_score(buffer, include_predictions)
        total == Min(100, events + anomalies + predictions)
    IN  [total |-> total, tier |-> RiskTier(total),
         event_score |-> events,
         recent_events |-> Len(recent),
         anomaly_score |-> anomalies,
         prediction_score |-> predictions,
         active_platforms |-> Cardinality(current_platforms(recent)),
         event_buffer_size |-> Len(buffer),
         historical_incidents |-> Len(history)]

(***************************************************************************)
(* miga_shared/agntcy: DirectoryClient.register and .discover as their     *)
(* try/except blocks.  An exchange with the directory either raises in the *)
(* try block (the exception class is the outcome) or yields a 2xx response *)
(* with a JSON body.                                                       *)
(***************************************************************************)
\* exception classes, each with its base classes
ExceptionBases ==
    [ConnectError |-> {"ConnectError", "Exception", "BaseException"},
     ConnectTimeout |-> {"TimeoutException", "Exception", "BaseException"},
     ReadTimeout |-> {"TimeoutException", "Exception", "BaseException"},
     HTTPStatusError |-> {"HTTPStatusError", "Exception", "BaseException"},
     JSONDecodeError |-> {"ValueError", "Exception", "BaseException"},
     AttributeError |-> {"AttributeError", "Exception", "BaseException"},
     CancelledError |-> {"CancelledError", "BaseException"}]

\* `except <class>` catches the exception
CatchesTimeoutAsConnect(class, exc) ==
    \/ class \in ExceptionBases[exc]
    \/ class = "ConnectError" /\ "TimeoutException" \in ExceptionBases[exc]

Catches(class, exc) == class \in ExceptionBases[exc]

Returned(value) == [kind |-> "return", value |-> value]

Raised(exc) == [kind |-> "raise", value |-> exc]

\* what the try block of register meets: an exception (AttributeError when
\* the body is a JSON list, which has no .get), or the body as a dict
RegisterExchanges ==
    {[raises |-> Some(exc), body |-> <<>>] : exc \in DOMAIN ExceptionBases}
    \cup {[raises |-> None, body |-> body] :
             body \in {<<>>, <<<<"cid", "c1">>>>, <<<<"id", "i1">>>>,
                       <<<<"id", "i1">>, <<"cid", "c1">>>>}}

\* resp.json().get(key, default)
BodyGet(body, key, default) ==
    IF \E k \in DOMAIN body : body[k][1] = key
    THEN body[CHOOSE k \in DOMAIN body : body[k][1] = key][2]
    ELSE default

register(exchange) ==
    IF exchange.raises = None
    THEN Returned(BodyGet(exchange.body, "cid", BodyGet(exchange.body, "id", "unknown")))
    ELSE IF Catches("ConnectError", exchange.raises[1]) THEN Returned("standalone")
    ELSE IF Catches("Exception", exchange.raises[1]) THEN Returned("error")
    ELSE Raised(exchange.raises[1])

\* what the try block of discover meets
DiscoverExchanges ==
    {[raises |-> Some(exc), records |-> <<>>] : exc \in DOMAIN ExceptionBases}
    \cup {[raises |-> None, records |-> rs] : rs \in RecordLists}

Discovered(exchange) ==
    IF exchange.raises = None THEN Returned(exchange.records)
    ELSE IF Catches("Exception", exchange.raises[1]) THEN Returned(<<>>)
    ELSE Raised(exchange.raises[1])

Register ==
    /\ Len(directory_calls) < MaxDirectoryCalls
    /\ \E exchange \in RegisterExchanges :
          directory_calls' = Append(directory_calls,
              [op |-> "register", raises |-> exchange.raises, result |-> register(exchange)])
    /\ UNCHANGED <<gatewayVars, extVars, backendVars, inferVars, toolVars, api>>

Discover ==
    /\ Len(directory_calls) < MaxDirectoryCalls
    /\ \E exchange \in DiscoverExchanges :
          directory_calls' = Append(directory_calls,
              [op |-> "discover", raises |-> exchange.raises, result |-> Discovered(exchange)])
    /\ UNCHANGED <<gatewayVars, extVars, backendVars, inferVars, toolVars, api>>

NextDirectory == Register \/ Discover

SpecDirectory == Init /\ [][NextDirectory]_vars

(***************************************************************************)
(* miga_shared/clients: CiscoAPIClient._request, one step per iteration of *)
(* its retry loop.  Waits are in seconds.                                  *)
(***************************************************************************)
MAX_RETRIES == 3

BACKOFF == <<1, 2, 4>>

\* what self._http.request meets: a response (status, Retry-After header)
\* or an exception
ApiResponses ==
    {[status |-> 429, retry_after |-> h, raises |-> None] :
        h \in {None, Some("7"), Some("Wed, 21 Oct 2026 07:28:00 GMT")}}
    \cup {[status |-> sc, retry_after |-> None, raises |-> None] :
             sc \in {200, 204, 400, 401, 404, 503}}
    \cup {[status |-> 0, retry_after |-> None, raises |-> Some(exc)] :
             exc \in {"ReadTimeout", "ConnectError"}}

\* float(text): the value, or None where float raises ValueError
Float(text) == IF text = "7" THEN Some(7) ELSE None

PlatformAPIError(message, status_code) ==
    [kind |-> "raise", class |-> "PlatformAPIError", message |-> message,
     status_code |-> status_code]

ApiReturned(value) ==
    [kind |-> "return", class |-> "none", message |-> value, status_code |-> None]

\* the loop has run out: line 131
FailedAfterRetries(last_err) ==
    PlatformAPIError(<<"Failed after 3 retries", last_err>>, None)

\* `continue`, or the end of the loop body without a return or raise
NextIteration(response, wait, last_err) ==
    api' = [api EXCEPT
              !.attempt = @ + 1,
              !.responses = Append(@, response),
              !.sleeps = IF wait = None THEN @ ELSE Append(@, wait[1]),
              !.last_err = last_err,
              !.pc = IF api.attempt + 1 < MAX_RETRIES THEN "attempt" ELSE "done",
              !.result = IF api.attempt + 1 < MAX_RETRIES THEN None
                         ELSE Some(FailedAfterRetries(last_err))]

Finish(response, result) ==
    api' = [api EXCEPT !.responses = Append(@, response), !.pc = "done",
                       !.result = Some(result)]

ApiCall ==
    /\ api.pc = "idle"
    /\ api' = [api EXCEPT !.pc = "attempt"]
    /\ UNCHANGED <<gatewayVars, extVars, backendVars, inferVars, toolVars, directory_calls>>

ApiAttempt ==
    /\ api.pc = "attempt"
    /\ \E response \in ApiResponses :
          LET sc == response.status
              retry == api.attempt < MAX_RETRIES - 1
          IN  IF response.raises # None
              THEN IF response.raises[1] = "ReadTimeout"
                   THEN NextIteration(response,
                                      IF retry THEN Some(BACKOFF[api.attempt + 1]) ELSE None,
                                      Some("ReadTimeout"))
                   ELSE Finish(response, PlatformAPIError(response.raises[1], None))
              ELSE IF sc = 429
              THEN IF response.retry_after = None
                   THEN NextIteration(response, Some(BACKOFF[api.attempt + 1]), api.last_err)
                   ELSE IF Float(response.retry_after[1]) = None
                   THEN Finish(response, PlatformAPIError("ValueError", None))
                   ELSE NextIteration(response, Float(response.retry_after[1]), api.last_err)
              ELSE IF sc = 204 THEN Finish(response, ApiReturned("None"))
              ELSE IF sc < 400 THEN Finish(response, ApiReturned("json"))
              ELSE IF sc \in {401, 403}
              THEN Finish(response, PlatformAPIError("Auth failed", Some(sc)))
              ELSE IF sc = 404
              THEN Finish(response, PlatformAPIError("Not found", Some(404)))
              ELSE IF sc >= 500 /\ retry
              THEN NextIteration(response, Some(BACKOFF[api.attempt + 1]),
                                 Some("HTTPStatusError"))
              ELSE Finish(response, PlatformAPIError("response text", Some(sc)))
    /\ UNCHANGED <<gatewayVars, extVars, backendVars, inferVars, toolVars, directory_calls>>

NextApi == ApiCall \/ ApiAttempt

SpecApi == Init /\ [][NextApi]_vars

(***************************************************************************)
(* infer_mcp: the six tools over _event_buffer, _incident_history and      *)
(* _anomaly_log, with the ingest handler that fills the buffer.  Here the  *)
(* handler's limits are the source's own: the buffers of this part stay    *)
(* far below them.  Timestamps are seconds relative to the clock of the    *)
(* tool invocations; every tool is invoked with its default parameters     *)
(* unless a parameter is drawn.                                            *)
(***************************************************************************)
BUFFER_MAX == 10000

BUFFER_KEEP == 5000

CORRELATION_WINDOW == 300

\* the retention capacity the history and the log are held against, and
\* the number of entries the tools may add before the model stops them
RetentionCapacity == BufferLimit

MaxRetained == RetentionCapacity + 1

\* a burst of telemetry arriving ever faster on one key
SpikeBurst ==
    [k \in 1..7 |->
        TimedEvent(<<"spike", k>>, "meraki", "vpn_tunnel_flap", S_medium,
                   IF k = 7 THEN 0 ELSE 2 * k - 12, {})]

\* a DNS failure seen by two platforms on one entity
CascadeBurst ==
    << TimedEvent(<<"dns", 1>>, "thousandeyes", "dns_failure", S_high, -5, {"dns1"}),
       TimedEvent(<<"dns", 2>>, "meraki", "client_connectivity_drop", S_medium, -5, {"dns1"}) >>

Bursts == {SpikeBurst, CascadeBurst, CascadeBurst \o SpikeBurst}

\* platform servers publish a burst of valid events
PublishBurst ==
    /\ feed = <<>>
    /\ event_buffer = <<>>
    /\ \E burst \in Bursts : feed' = burst
    /\ UNCHANGED <<gatewayVars, extVars, backendVars, clientVars, inferVars,
                   incident_history, anomaly_log, tool_result>>

\* _on_correlated_event for the next message of the feed
DeliverEvent ==
    /\ feed # <<>>
    /\ feed' = Tail(feed)
    /\ ingested' = ingested + 1
    /\ LET appended == Append(event_buffer, Head(feed))
       IN  event_buffer' =
               IF Len(appended) > BUFFER_MAX
               THEN SubSeq(appended, Len(appended) - BUFFER_KEEP + 1, Len(appended))
               ELSE appended
    /\ UNCHANGED <<gatewayVars, extVars, backendVars, clientVars, rcaVars, analysisVars,
                   incident_history, anomaly_log, tool_result>>

\* `[e for e in _event_buffer if e.timestamp >= cutoff]`
Since(buffer, lookback_seconds) ==
    SelectSeq(buffer, LAMBDA e : e.timestamp >= 0 - lookback_seconds)

ToolFrame == <<gatewayVars, extVars, backendVars, clientVars, inferVars, feed>>

CorrelateEventsTool ==
    /\ \E min_severity \in {S_low, S_high} :
          LET events == IF min_severity # S_low
                        THEN SelectSeq(event_buffer,
                                 LAMBDA e : _severity_rank(e.severity)
                                                >= _severity_rank(min_severity))
                        ELSE event_buffer
          IN  tool_result' = [tool |-> "infer_correlate_events",
                              out |-> correlate_events(events, CORRELATION_WINDOW)]
    /\ UNCHANGED <<ToolFrame, incident_history, anomaly_log>>

\* the events of a group as match_root_cause reads them
AsRcaGroup(g) ==
    [platforms |-> g.platforms,
     events |-> [k \in DOMAIN g.events |->
                    GroupEvent(Some(g.events[k].source_platform),
                               Some(g.events[k].event_type),
                               Some(g.events[k].severity))]]

\* the entries root_cause_analysis appends for the groups from index i on
RECURSIVE IncidentsOf(_, _)
IncidentsOf(groups, i) ==
    IF i > Len(groups) THEN <<>>
    ELSE LET rca == match_root_cause(AsRcaGroup(groups[i]))
         IN  (IF rca # None
              THEN <<[timestamp |-> 0, rca |-> rca[1], platforms |-> groups[i].platforms,
                      severity |-> groups[i].severity]>>
              ELSE <<>>) \o IncidentsOf(groups, i + 1)

RootCauseAnalysis ==
    /\ Len(incident_history) < MaxRetained
    /\ LET groups == correlate_events(event_buffer, CORRELATION_WINDOW)
       IN  /\ tool_result' =
                  [tool |-> "infer_root_cause_analysis",
                   out |-> [g \in DOMAIN groups |->
                               [platforms |-> groups[g].platforms,
                                rca |-> match_root_cause(AsRcaGroup(groups[g]))]]]
           /\ incident_history' = incident_history \o IncidentsOf(groups, 1)
    /\ UNCHANGED <<ToolFrame, anomaly_log>>

DetectAnomaliesTool ==
    /\ Len(anomaly_log) < MaxRetained
    /\ \E min_confidence \in {70, 100} :
          LET anomalies == SelectSeq(detect_anomalies(Since(event_buffer, 3600)),
                                     LAMBDA a : a.confidence >= min_confidence)
          IN  /\ tool_result' = [tool |-> "infer_detect_anomalies", out |-> anomalies]
              /\ anomaly_log' = anomaly_log \o anomalies
    /\ UNCHANGED <<ToolFrame, incident_history>>

PredictFailuresTool ==
    /\ tool_result' = [tool |-> "infer_predict_failures",
                       out |-> predict_failures(Since(event_buffer, 1800))]
    /\ UNCHANGED <<ToolFrame, incident_history, anomaly_log>>

GetIncidentTimeline ==
    /\ \E min_severity \in {S_info, S_critical} :
          tool_result' =
              [tool |-> "infer_get_incident_timeline",
               out |-> SelectSeq(incident_history,
                          LAMBDA inc : /\ inc.timestamp >= 0 - 86400
                                       /\ _severity_rank(inc.severity)
                                              >= _severity_rank(min_severity))]
    /\ UNCHANGED <<ToolFrame, incident_history, anomaly_log>>

NetworkRiskScoreTool ==
    /\ \E include_predictions \in BOOLEAN, include_anomalies \in BOOLEAN :
          tool_result' =
              [tool |-> "infer_network_risk_score",
               out |-> network_risk_score(event_buffer, anomaly_log, incident_history,
                                          include_predictions, include_anomalies)]
    /\ UNCHANGED <<ToolFrame, incident_history, anomaly_log>>

InferTool ==
    \/ CorrelateEventsTool
    \/ RootCauseAnalysis
    \/ DetectAnomaliesTool
    \/ PredictFailuresTool
    \/ GetIncidentTimeline
    \/ NetworkRiskScoreTool

NextTools == PublishBurst \/ DeliverEvent \/ InferTool

SpecTools == Init /\ [][NextTools]_vars

(***************************************************************************)
(* infer_mcp: _on_security_alert on the envelopes xdr_mcp publishes with   *)
(* publish_alert, a dumped CorrelatedEvent, and correlate_events over the  *)
(* buffer it fills.  An envelope key the handler does not read is kept by  *)
(* the envelope only.                                                      *)
(***************************************************************************)
MaxAlerts == 2

\* the moments, relative to the tools' clock, at which an alert is ingested
AlertIngestTimes == {-3, 0}

\* xdr_mcp incidents: source_platform, event_type, severity, timestamp,
\* affected_entities and event_id of the dumped event; the last envelope is
\* one a publisher wrote with the keys the handler reads
AlertEnvelopes ==
    { [event_id |-> <<"alert", 1>>, source |-> None, source_platform |-> Some("xdr"),
       event_type |-> Some("security_incident"), severity |-> Some(S_critical),
       timestamp |-> -5, affected_entities |-> {"dns1"}],
      [event_id |-> <<"alert", 2>>, source |-> None, source_platform |-> Some("xdr"),
       event_type |-> Some("security_incident"), severity |-> Some(S_high),
       timestamp |-> -100, affected_entities |-> {"dns1", "sw1"}],
      [event_id |-> <<"alert", 3>>, source |-> Some("ise"), source_platform |-> None,
       event_type |-> None, severity |-> None,
       timestamp |-> -5, affected_entities |-> {"dns1"}],
      [event_id |-> <<"alert", 4>>, source |-> Some("bogus"), source_platform |-> None,
       event_type |-> Some("security_incident"), severity |-> Some(S_high),
       timestamp |-> -5, affected_entities |-> {"dns1"}] }

\* a handler that copies the envelope's entities
AlertEntitiesFromEnvelope(data) == data.affected_entities

\* lines 410-415 pass no affected_entities: the field takes its default
AlertEntities(data) == {}

\* lines 410-415: the CorrelatedEvent the handler builds at ingest time t
AlertEvent(data, t) ==
    TimedEvent(FreshId, Get(data.source, "xdr"), Get(data.event_type, "security_alert"),
               Get(data.severity, S_medium), t, AlertEntities(data))

StoredAlerts == SelectSeq(event_buffer, LAMBDA e : e.event_id[1] = "uuid4")

\* the deliveries made on alerts:security, stored or rejected
AlertsDelivered == ingested - (Len(event_buffer) - Len(StoredAlerts))

\* _on_security_alert for an envelope delivered on alerts:security
DeliverAlert ==
    /\ AlertsDelivered < MaxAlerts
    /\ ingested' = ingested + 1
    /\ \E data \in AlertEnvelopes, t \in AlertIngestTimes :
          IF Get(data.source, "xdr") \in PlatformType
          THEN event_buffer' = Append(event_buffer, AlertEvent(data, t))
          ELSE UNCHANGED event_buffer
    /\ UNCHANGED <<gatewayVars, extVars, backendVars, clientVars, rcaVars, analysisVars,
                   toolVars>>

NextAlerts == PublishBurst \/ DeliverEvent \/ DeliverAlert \/ CorrelateEventsTool

SpecAlerts == Init /\ [][NextAlerts]_vars

(***************************************************************************)
(* infer_network_risk_score over drawn contents of the buffer and the log. *)
(***************************************************************************)
\* the buffered events the score is drawn for: k is the position of the
\* event's kind in RiskSteps, and a buffer lists its kinds in that order
RiskSteps ==
    << [platform |-> "meraki", severity |-> S_critical, timestamp |-> -10],
       [platform |-> "meraki", severity |-> S_critical, timestamp |-> -4000],
       [platform |-> "thousandeyes", severity |-> S_critical, timestamp |-> -10],
       [platform |-> "xdr", severity |-> S_high, timestamp |-> -10],
       [platform |-> "splunk", severity |-> S_medium, timestamp |-> -10],
       [platform |-> "ise", severity |-> S_low, timestamp |-> -10],
       [platform |-> "webex", severity |-> S_info, timestamp |-> -10] >>

RiskEvent(k) ==
    TimedEvent(<<"kind", k>>, RiskSteps[k].platform, "alert", RiskSteps[k].severity,
               RiskSteps[k].timestamp, {})

BufferRiskEvent ==
    /\ tool_result.tool = "none"
    /\ Len(event_buffer) < MaxRiskEvents
    /\ \E k \in DOMAIN RiskSteps :
          /\ event_buffer # <<>> => event_buffer[Len(event_buffer)].event_id[2] <= k
          /\ event_buffer' = Append(event_buffer, RiskEvent(k))
    /\ UNCHANGED <<gatewayVars, extVars, clientVars, backendVars, ingested, rcaVars, analysisVars, toolVars>>

\* the logged anomalies the score is drawn for
LogRiskAnomaly ==
    /\ tool_result.tool = "none"
    /\ Len(anomaly_log) < MaxLogged
    /\ anomaly_log' = Append(anomaly_log,
                             Anomaly(<<"meraki", "vpn_tunnel_flap">>, <<2, 2, 2, 2, 2, 0>>))
    /\ UNCHANGED <<gatewayVars, extVars, clientVars, backendVars, inferVars, incident_history, feed, tool_result>>

NextRisk == BufferRiskEvent \/ LogRiskAnomaly \/ NetworkRiskScoreTool

SpecRisk == Init /\ [][NextRisk]_vars

(***************************************************************************)
(* webex_bot/nlp: regular expressions.  A pattern is the parse tree of the *)
(* source's regex; MatchEnds gives every position at which a match         *)
(* starting at position i can end, so re.search succeeds iff some start    *)
(* has an end.  Strings are sequences of characters.                       *)
(***************************************************************************)
Digits == {"0", "1", "2", "3", "4", "5", "6", "7", "8", "9"}

Whitespace == {" ", "\t", "\n"}

WordChars == Range(LowerLetters) \cup Range(UpperLetters) \cup Digits \cup {"_"}

ReLit(chars) == [op |-> "lit", chars |-> chars]

ReClass(set) == [op |-> "class", set |-> set]

ReAny == [op |-> "any"]

ReWordBoundary == [op |-> "boundary"]

ReAlt(branches) == [op |-> "alt", items |-> branches]

ReSeq(items) == [op |-> "seq", items |-> items]

ReRepeat(item, lo, hi) == [op |-> "repeat", item |-> item, lo |-> lo, hi |-> hi]

ReOpt(item) == ReRepeat(item, 0, 1)

\* hi = -1: no upper limit
ReStar(item) == ReRepeat(item, 0, -1)

RePlus(item) == ReRepeat(item, 1, -1)

IsWordAt(text, i) == i \in DOMAIN text /\ text[i] \in WordChars

RECURSIVE MatchEnds(_, _, _), SeqEnds(_, _, _), RepeatEnds(_, _, _, _)
MatchEnds(re, text, i) ==
    CASE re.op = "lit" ->
            IF /\ i + Len(re.chars) - 1 <= Len(text)
               /\ SubSeq(text, i, i + Len(re.chars) - 1) = re.chars
            THEN {i + Len(re.chars)} ELSE {}
      [] re.op = "class" -> IF i \in DOMAIN text /\ text[i] \in re.set THEN {i + 1} ELSE {}
      [] re.op = "any" -> IF i \in DOMAIN text /\ text[i] # "\n" THEN {i + 1} ELSE {}
      [] re.op = "boundary" -> IF IsWordAt(text, i - 1) # IsWordAt(text, i) THEN {i} ELSE {}
      [] re.op = "alt" -> UNION {MatchEnds(re.items[k], text, i) : k \in DOMAIN re.items}
      [] re.op = "seq" -> SeqEnds(re.items, text, {i})
      [] re.op = "repeat" -> RepeatEnds(re, text, {i}, 0)

SeqEnds(items, text, starts) ==
    IF items = <<>> \/ starts = {} THEN starts
    ELSE SeqEnds(Tail(items), text, UNION {MatchEnds(items[1], text, j) : j \in starts})

\* the ends after `done` repetitions are `ends`; count those allowed and go on
RepeatEnds(re, text, ends, done) ==
    LET here == IF done >= re.lo THEN ends ELSE {}
        more == UNION {MatchEnds(re.item, text, j) : j \in ends}
    IN  IF ends = {} \/ done = re.hi \/ (done >= re.lo /\ more \subseteq ends) THEN here
        ELSE here \cup RepeatEnds(re, text, more, done + 1)

\* re.search(pattern, text) is not None
Search(re, text) == \E i \in 1..(Len(text) + 1) : MatchEnds(re, text, i) # {}

\* str.strip()
RECURSIVE Strip(_)
Strip(text) ==
    IF text = <<>> THEN text
    ELSE IF text[1] \in Whitespace THEN Strip(Tail(text))
    ELSE IF text[Len(text)] \in Whitespace THEN Strip(SubSeq(text, 1, Len(text) - 1))
    ELSE text

(***************************************************************************)
(* webex_bot/nlp: INTENT_PATTERNS, ENTITY_PATTERNS and recognize_intent.   *)
(* Confidences are in hundredths.  Of an extracted entity the model keeps  *)
(* the key, not the list of matches.                                       *)
(***************************************************************************)
INTENT_PATTERNS ==
    << [pattern |-> ReSeq(<<ReAlt(<<ReLit(<<"n", "e", "t", "w", "o", "r", "k">>), ReLit(<<"o", "v", "e", "r", "a", "l", "l">>)>>), ReStar(ReClass(Whitespace)), ReAlt(<<ReLit(<<"s", "t", "a", "t", "u", "s">>), ReLit(<<"h", "e", "a", "l", "t", "h">>), ReLit(<<"o", "v", "e", "r", "v", "i", "e", "w">>)>>)>>),
        category |-> "network_status", platform |-> None, confidence |-> 95],
       [pattern |-> ReSeq(<<ReAlt(<<ReLit(<<"i", "s">>), ReLit(<<"a", "r", "e">>)>>), RePlus(ReClass(Whitespace)), ReOpt(ReSeq(<<ReLit(<<"t", "h", "e">>), RePlus(ReClass(Whitespace))>>)), ReAlt(<<ReLit(<<"n", "e", "t", "w", "o", "r", "k">>), ReLit(<<"t", "h", "i", "n", "g", "s">>)>>), RePlus(ReClass(Whitespace)), ReAlt(<<ReLit(<<"o", "k">>), ReLit(<<"h", "e", "a", "l", "t", "h", "y">>), ReLit(<<"u", "p">>), ReLit(<<"d", "o", "w", "n">>)>>)>>),
        category |-> "network_status", platform |-> None, confidence |-> 90],
       [pattern |-> ReSeq(<<ReLit(<<"h", "o", "w">>), ReAlt(<<ReLit(<<"'", "s">>), ReLit(<<" ", "i", "s">>)>>), RePlus(ReClass(Whitespace)), ReOpt(ReSeq(<<ReLit(<<"t", "h", "e">>), RePlus(ReClass(Whitespace))>>)), ReLit(<<"n", "e", "t", "w", "o", "r", "k">>)>>),
        category |-> "network_status", platform |-> None, confidence |-> 90],
       [pattern |-> ReSeq(<<ReAlt(<<ReLit(<<"m", "e", "r", "a", "k", "i">>), ReLit(<<"d", "a", "s", "h", "b", "o", "a", "r", "d">>)>>), RePlus(ReClass(Whitespace)), ReAlt(<<ReLit(<<"h", "e", "a", "l", "t", "h">>), ReLit(<<"s", "t", "a", "t", "u", "s">>), ReLit(<<"o", "v", "e", "r", "v", "i", "e", "w">>), ReLit(<<"d", "e", "v", "i", "c", "e", "s">>)>>)>>),
        category |-> "observability", platform |-> Some("meraki"), confidence |-> 90],
       [pattern |-> ReSeq(<<ReAlt(<<ReLit(<<"c", "a", "t", "a", "l", "y", "s", "t">>), ReSeq(<<ReLit(<<"d", "n", "a">>), ReOpt(ReLit(<<"c">>))>>), ReSeq(<<ReLit(<<"c", "a", "t", "a", "l", "y", "s", "t">>), ReAny, ReLit(<<"c", "e", "n", "t", "e", "r">>)>>)>>), RePlus(ReClass(Whitespace)), ReAlt(<<ReLit(<<"h", "e", "a", "l", "t", "h">>), ReLit(<<"s", "t", "a", "t", "u", "s">>), ReSeq(<<ReLit(<<"i", "s", "s", "u", "e">>), ReOpt(ReLit(<<"s">>))>>), ReSeq(<<ReLit(<<"d", "e", "v", "i", "c", "e">>), ReOpt(ReLit(<<"s">>))>>)>>)>>),
        category |-> "observability", platform |-> Some("catalyst_center"), confidence |-> 90],
       [pattern |-> ReSeq(<<ReAlt(<<ReLit(<<"t", "h", "o", "u", "s", "a", "n", "d", "e", "y", "e", "s">>), ReLit(<<"t", "e">>), ReLit(<<"p", "a", "t", "h">>)>>), RePlus(ReClass(Whitespace)), ReAlt(<<ReLit(<<"h", "e", "a", "l", "t", "h">>), ReLit(<<"s", "t", "a", "t", "u", "s">>), ReSeq(<<ReLit(<<"t", "e", "s", "t">>), ReOpt(ReLit(<<"s">>))>>), ReSeq(<<ReLit(<<"a", "l", "e", "r", "t">>), ReOpt(ReLit(<<"s">>))>>)>>)>>),
        category |-> "observability", platform |-> Some("thousandeyes"), confidence |-> 90],
       [pattern |-> ReSeq(<<ReLit(<<"w", "i">>), ReAlt(<<ReLit(<<"r", "e", "l", "e", "s", "s">>), ReLit(<<"f", "i">>), ReLit(<<"-", "f", "i">>)>>), RePlus(ReClass(Whitespace)), ReAlt(<<ReLit(<<"h", "e", "a", "l", "t", "h">>), ReLit(<<"s", "t", "a", "t", "u", "s">>), ReSeq(<<ReLit(<<"c", "l", "i", "e", "n", "t">>), ReOpt(ReLit(<<"s">>))>>)>>)>>),
        category |-> "observability", platform |-> Some("meraki"), confidence |-> 85],
       [pattern |-> ReSeq(<<ReAlt(<<ReLit(<<"s", "e", "c", "u", "r", "i", "t", "y">>), ReLit(<<"t", "h", "r", "e", "a", "t">>), ReLit(<<"x", "d", "r">>)>>), RePlus(ReClass(Whitespace)), ReAlt(<<ReSeq(<<ReLit(<<"e", "v", "e", "n", "t">>), ReOpt(ReLit(<<"s">>))>>), ReSeq(<<ReLit(<<"i", "n", "c", "i", "d", "e", "n", "t">>), ReOpt(ReLit(<<"s">>))>>), ReSeq(<<ReLit(<<"a", "l", "e", "r", "t">>), ReOpt(ReLit(<<"s">>))>>), ReSeq(<<ReLit(<<"t", "h", "r", "e", "a", "t">>), ReOpt(ReLit(<<"s">>))>>)>>)>>),
        category |-> "security", platform |-> Some("xdr"), confidence |-> 90],
       [pattern |-> ReSeq(<<ReAlt(<<ReLit(<<"m", "a", "l", "w", "a", "r", "e">>), ReLit(<<"a", "m", "p">>), ReLit(<<"i", "d", "s">>), ReLit(<<"i", "p", "s">>)>>), RePlus(ReClass(Whitespace)), ReAlt(<<ReSeq(<<ReLit(<<"e", "v", "e", "n", "t">>), ReOpt(ReLit(<<"s">>))>>), ReSeq(<<ReLit(<<"d", "e", "t", "e", "c", "t", "i", "o", "n">>), ReOpt(ReLit(<<"s">>))>>), ReSeq(<<ReLit(<<"a", "l", "e", "r", "t">>), ReOpt(ReLit(<<"s">>))>>)>>)>>),
        category |-> "security", platform |-> None, confidence |-> 90],
       [pattern |-> ReAlt(<<ReSeq(<<ReLit(<<"l", "a", "t", "e", "r", "a", "l">>), RePlus(ReClass(Whitespace)), ReLit(<<"m", "o", "v", "e", "m", "e", "n", "t">>)>>), ReLit(<<"s", "u", "s", "p", "i", "c", "i", "o", "u", "s">>), ReLit(<<"a", "n", "o", "m", "a", "l">>)>>),
        category |-> "security", platform |-> None, confidence |-> 85],
       [pattern |-> ReSeq(<<ReLit(<<"f">>), ReAlt(<<ReLit(<<"i", "r", "e", "w", "a", "l", "l">>), ReLit(<<"w">>)>>), RePlus(ReClass(Whitespace)), ReAlt(<<ReSeq(<<ReLit(<<"r", "u", "l", "e">>), ReOpt(ReLit(<<"s">>))>>), ReSeq(<<ReLit(<<"p", "o", "l", "i", "c", "i", "e">>), ReOpt(ReLit(<<"s">>))>>), ReLit(<<"s", "t", "a", "t", "u", "s">>)>>)>>),
        category |-> "security", platform |-> Some("security_cloud_control"), confidence |-> 85],
       [pattern |-> ReSeq(<<ReAlt(<<ReLit(<<"h", "y", "p", "e", "r", "s", "h", "i", "e", "l", "d">>), ReLit(<<"e", "b", "p", "f">>)>>), RePlus(ReClass(Whitespace)), ReAlt(<<ReLit(<<"s", "t", "a", "t", "u", "s">>), ReLit(<<"e", "n", "f", "o", "r", "c", "e", "m", "e", "n", "t">>), ReSeq(<<ReLit(<<"f", "l", "o", "w">>), ReOpt(ReLit(<<"s">>))>>)>>)>>),
        category |-> "security", platform |-> Some("hypershield"), confidence |-> 85],
       [pattern |-> ReAlt(<<ReLit(<<"c", "o", "r", "r", "e", "l", "a", "t">>), ReSeq(<<ReLit(<<"r", "o", "o", "t">>), ReAny, ReLit(<<"c", "a", "u", "s", "e">>)>>), ReLit(<<"r", "c", "a">>)>>),
        category |-> "observability", platform |-> Some("infer"), confidence |-> 90],
       [pattern |-> ReSeq(<<ReAlt(<<ReLit(<<"p", "r", "e", "d", "i", "c", "t">>), ReLit(<<"f", "o", "r", "e", "c", "a", "s", "t">>)>>), RePlus(ReClass(Whitespace)), ReAlt(<<ReLit(<<"f", "a", "i", "l">>), ReLit(<<"o", "u", "t", "a", "g", "e">>), ReLit(<<"i", "n", "c", "i", "d", "e", "n", "t">>)>>)>>),
        category |-> "observability", platform |-> Some("infer"), confidence |-> 90],
       [pattern |-> ReSeq(<<ReAlt(<<ReLit(<<"a", "n", "o", "m", "a", "l">>), ReLit(<<"u", "n", "u", "s", "u", "a", "l">>), ReLit(<<"a", "b", "n", "o", "r", "m", "a", "l">>)>>), RePlus(ReClass(Whitespace)), ReAlt(<<ReLit(<<"p", "a", "t", "t", "e", "r", "n">>), ReLit(<<"b", "e", "h", "a", "v", "i", "o", "r">>), ReLit(<<"t", "r", "a", "f", "f", "i", "c">>)>>)>>),
        category |-> "observability", platform |-> Some("infer"), confidence |-> 85],
       [pattern |-> ReSeq(<<ReLit(<<"r", "i", "s", "k">>), RePlus(ReClass(Whitespace)), ReLit(<<"s", "c", "o", "r", "e">>)>>),
        category |-> "compliance", platform |-> Some("infer"), confidence |-> 90],
       [pattern |-> ReSeq(<<ReAlt(<<ReLit(<<"r", "u", "n">>), ReLit(<<"e", "x", "e", "c", "u", "t", "e">>)>>), RePlus(ReClass(Whitespace)), ReAlt(<<ReLit(<<"c", "o", "m", "m", "a", "n", "d">>), ReLit(<<"c", "l", "i">>), ReLit(<<"s", "h", "o", "w">>)>>)>>),
        category |-> "automation", platform |-> Some("catalyst_center"), confidence |-> 90],
       [pattern |-> ReAlt(<<ReLit(<<"r", "e", "m", "e", "d", "i", "a", "t">>), ReLit(<<"f", "i", "x">>), ReLit(<<"r", "e", "s", "t", "a", "r", "t">>), ReLit(<<"r", "e", "b", "o", "o", "t">>)>>),
        category |-> "automation", platform |-> None, confidence |-> 80],
       [pattern |-> ReSeq(<<ReLit(<<"q", "u", "a", "r", "a", "n", "t", "i", "n", "e">>), RePlus(ReClass(Whitespace)), ReAlt(<<ReLit(<<"e", "n", "d", "p", "o", "i", "n", "t">>), ReLit(<<"d", "e", "v", "i", "c", "e">>), ReLit(<<"m", "a", "c">>)>>)>>),
        category |-> "automation", platform |-> Some("ise"), confidence |-> 90],
       [pattern |-> ReSeq(<<ReAlt(<<ReLit(<<"s", "h", "o", "w">>), ReLit(<<"g", "e", "t">>)>>), RePlus(ReClass(Whitespace)), ReAlt(<<ReLit(<<"c", "o", "n", "f", "i", "g">>), ReLit(<<"c", "o", "n", "f", "i", "g", "u", "r", "a", "t", "i", "o", "n">>), ReLit(<<"r", "u", "n", "n", "i", "n", "g">>)>>)>>),
        category |-> "configuration", platform |-> None, confidence |-> 85],
       [pattern |-> ReAlt(<<ReLit(<<"t", "o", "p", "o", "l", "o", "g", "y">>), ReSeq(<<ReLit(<<"s", "i", "t", "e">>), ReAny, ReLit(<<"h", "i", "e", "r", "a", "r", "c", "h", "y">>)>>), ReLit(<<"f", "a", "b", "r", "i", "c">>)>>),
        category |-> "configuration", platform |-> None, confidence |-> 80],
       [pattern |-> ReSeq(<<ReAlt(<<ReLit(<<"l", "i", "s", "t">>), ReLit(<<"s", "h", "o", "w">>)>>), RePlus(ReClass(Whitespace)), ReAlt(<<ReSeq(<<ReLit(<<"n", "e", "t", "w", "o", "r", "k">>), ReOpt(ReLit(<<"s">>))>>), ReSeq(<<ReLit(<<"d", "e", "v", "i", "c", "e">>), ReOpt(ReLit(<<"s">>))>>), ReLit(<<"i", "n", "v", "e", "n", "t", "o", "r", "y">>)>>)>>),
        category |-> "configuration", platform |-> None, confidence |-> 80],
       [pattern |-> ReAlt(<<ReLit(<<"c", "o", "m", "p", "l", "i", "a", "n", "c", "e">>), ReLit(<<"p", "o", "s", "t", "u", "r", "e">>), ReLit(<<"a", "u", "d", "i", "t">>), ReLit(<<"c", "e", "r", "t", "i", "f", "i", "c", "a", "t", "e">>)>>),
        category |-> "compliance", platform |-> None, confidence |-> 85],
       [pattern |-> ReAlt(<<ReSeq(<<ReLit(<<"p", "o", "l", "i", "c", "y">>), RePlus(ReClass(Whitespace)), ReLit(<<"d", "r", "i", "f", "t">>)>>), ReLit(<<"r", "e", "g", "u", "l", "a", "t", "o", "r", "y">>)>>),
        category |-> "compliance", platform |-> None, confidence |-> 80],
       [pattern |-> ReAlt(<<ReLit(<<"w", "h", "o">>), ReLit(<<"s", "e", "s", "s", "i", "o", "n">>), ReLit(<<"a", "u", "t", "h", "e", "n", "t", "i", "c", "a", "t", "i", "o", "n">>), ReLit(<<"r", "a", "d", "i", "u", "s">>), ReLit(<<"d", "o", "t", "1", "x">>)>>),
        category |-> "identity", platform |-> Some("ise"), confidence |-> 85],
       [pattern |-> ReAlt(<<ReLit(<<"p", "r", "o", "f", "i", "l">>), ReSeq(<<ReLit(<<"e", "n", "d", "p", "o", "i", "n", "t">>), RePlus(ReClass(Whitespace)), ReLit(<<"t", "y", "p", "e">>)>>), ReSeq(<<ReLit(<<"d", "e", "v", "i", "c", "e">>), RePlus(ReClass(Whitespace)), ReLit(<<"t", "y", "p", "e">>)>>)>>),
        category |-> "identity", platform |-> Some("ise"), confidence |-> 80],
       [pattern |-> ReAlt(<<ReLit(<<"h", "e", "l", "p">>), ReSeq(<<ReLit(<<"w", "h", "a", "t">>), RePlus(ReClass(Whitespace)), ReLit(<<"c", "a", "n">>), RePlus(ReClass(Whitespace)), ReLit(<<"y", "o", "u">>)>>), ReLit(<<"c", "a", "p", "a", "b", "i", "l", "i", "t", "i", "e", "s">>), ReSeq(<<ReLit(<<"t", "o", "o", "l">>), ReOpt(ReLit(<<"s">>))>>), ReSeq(<<ReLit(<<"c", "o", "m", "m", "a", "n", "d">>), ReOpt(ReLit(<<"s">>))>>)>>),
        category |-> "help", platform |-> None, confidence |-> 95] >>

ENTITY_PATTERNS ==
    << [entity_type |-> "ip_address",
        pattern |-> ReSeq(<<ReWordBoundary, ReSeq(<<ReRepeat(ReClass(Digits), 1, 3), ReLit(<<".">>), ReRepeat(ReClass(Digits), 1, 3), ReLit(<<".">>), ReRepeat(ReClass(Digits), 1, 3), ReLit(<<".">>), ReRepeat(ReClass(Digits), 1, 3)>>), ReWordBoundary>>)],
       [entity_type |-> "mac_address",
        pattern |-> ReSeq(<<ReWordBoundary, ReRepeat(ReSeq(<<ReRepeat(ReClass(Digits \cup {"A", "B", "C", "D", "E", "F"} \cup {"a", "b", "c", "d", "e", "f"}), 2, 2), ReClass({":"} \cup {"-"})>>), 5, 5), ReRepeat(ReClass(Digits \cup {"A", "B", "C", "D", "E", "F"} \cup {"a", "b", "c", "d", "e", "f"}), 2, 2), ReWordBoundary>>)],
       [entity_type |-> "hostname",
        pattern |-> ReSeq(<<ReWordBoundary, ReAlt(<<ReLit(<<"s", "w", "i", "t", "c", "h">>), ReLit(<<"r", "o", "u", "t", "e", "r">>), ReLit(<<"a", "p">>), ReLit(<<"w", "l", "c">>), ReLit(<<"f", "w">>), ReLit(<<"l", "e", "a", "f">>), ReLit(<<"s", "p", "i", "n", "e">>)>>), ReClass({"-"} \cup {"_"}), RePlus(ReClass(WordChars \cup {"-"})), ReWordBoundary>>)],
       [entity_type |-> "network_id",
        pattern |-> ReSeq(<<ReWordBoundary, ReClass({"L"} \cup {"N"}), ReLit(<<"_">>), RePlus(ReClass(Digits)), ReWordBoundary>>)],
       [entity_type |-> "device_id",
        pattern |-> ReSeq(<<ReWordBoundary, ReRepeat(ReClass(Digits \cup {"a", "b", "c", "d", "e", "f"}), 8, 8), ReLit(<<"-">>), ReRepeat(ReClass(Digits \cup {"a", "b", "c", "d", "e", "f"}), 4, 4), ReLit(<<"-">>), ReRepeat(ReClass(Digits \cup {"a", "b", "c", "d", "e", "f"}), 4, 4), ReLit(<<"-">>), ReRepeat(ReClass(Digits \cup {"a", "b", "c", "d", "e", "f"}), 4, 4), ReLit(<<"-">>), ReRepeat(ReClass(Digits \cup {"a", "b", "c", "d", "e", "f"}), 12, 12), ReWordBoundary>>)],
       [entity_type |-> "severity",
        pattern |-> ReSeq(<<ReWordBoundary, ReAlt(<<ReLit(<<"c", "r", "i", "t", "i", "c", "a", "l">>), ReLit(<<"h", "i", "g", "h">>), ReLit(<<"m", "e", "d", "i", "u", "m">>), ReLit(<<"l", "o", "w">>), ReSeq(<<ReLit(<<"p">>), ReClass({"1", "2", "3", "4"})>>)>>), ReWordBoundary>>)] >>

ParsedIntent(category, platform, confidence, arguments) ==
    [category |-> category, tool_name |-> None, platform |-> platform,
     confidence |-> confidence, arguments |-> arguments]

\* `best is None or confidence > best.confidence`
ReplacesBestOnTie(best, confidence) == best = None \/ confidence >= best[1].confidence

ReplacesBest(best, confidence) == best = None \/ confidence > best[1].confidence

\* `best` after the rows 1..k of the scan
RECURSIVE BestAfter(_, _)
BestAfter(normalized, k) ==
    IF k = 0 THEN None
    ELSE LET best == BestAfter(normalized, k - 1)
             row == INTENT_PATTERNS[k]
         IN  IF Search(row.pattern, normalized) /\ ReplacesBest(best, row.confidence)
             THEN Some(ParsedIntent(row.category, row.platform, row.confidence, {}))
             ELSE best

\* the keys the entity loop puts into best.arguments
ExtractedEntities(normalized) ==
    {ENTITY_PATTERNS[k].entity_type :
        k \in {j \in DOMAIN ENTITY_PATTERNS : Search(ENTITY_PATTERNS[j].pattern, normalized)}}

recognize_intent(text) ==
    LET normalized == Lower(Strip(text))
        scanned == BestAfter(normalized, Len(INTENT_PATTERNS))
        best == IF scanned = None THEN ParsedIntent("unknown", None, 0, {}) ELSE scanned[1]
    IN  [best EXCEPT !.arguments = ExtractedEntities(normalized)]

(***************************************************************************)
(* webex_bot/app: handle_intent.  The arguments object sent to the gateway *)
(* is kept as its set of keys and its platforms list.                      *)
(***************************************************************************)
INTENT_TO_TOOL ==
    [observability |-> "observability", security |-> "security",
     automation |-> "automation", configuration |-> "configuration",
     compliance |-> "compliance", identity |-> "identity",
     network_status |-> "network_status"]

\* what handle_intent passes to call_gateway, None when it calls nothing
handle_intent(intent) ==
    IF intent.category = "help" THEN None
    ELSE IF intent.category = "unknown" /\ intent.confidence < 50 THEN None
    ELSE LET tool_name == IF intent.category = "unknown" THEN "observability"
                          ELSE IF intent.category \in DOMAIN INTENT_TO_TOOL
                          THEN INTENT_TO_TOOL[intent.category] ELSE "observability"
         IN  Some([tool_name |-> tool_name,
                   keys |-> (IF intent.platform # None THEN {"platforms"} ELSE {})
                            \cup (IF intent.tool_name # None THEN {"tool_name"} ELSE {})
                            \cup intent.arguments,
                   platforms |-> intent.platform])

\* the words a user types, each followed by the separator typed after it
BotWords ==
    { <<"h", "e", "l", "p">>,
      <<"N", "e", "t", "w", "o", "r", "k">>,
      <<"s", "t", "a", "t", "u", "s">>,
      <<"m", "e", "r", "a", "k", "i">>,
      <<"h", "e", "a", "l", "t", "h">>,
      <<"f", "i", "x">>,
      <<"c", "r", "i", "t", "i", "c", "a", "l">>,
      <<"1", "0", ".", "1", ".", "1", ".", "5">> }

TypeWord ==
    /\ bot.pc = "typing"
    /\ bot.words < MaxWords
    /\ \E word \in BotWords :
          bot' = [bot EXCEPT !.text = @ \o word \o <<" ">>, !.words = @ + 1]
    /\ UNCHANGED <<gatewayVars, backendVars, inferVars, toolVars, clientVars, listener, directory>>

RecognizeIntent ==
    /\ bot.pc = "typing"
    /\ bot' = [bot EXCEPT !.pc = "recognized", !.intent = Some(recognize_intent(bot.text))]
    /\ UNCHANGED <<gatewayVars, backendVars, inferVars, toolVars, clientVars, listener, directory>>

HandleIntent ==
    /\ bot.pc = "recognized"
    /\ bot' = [bot EXCEPT !.pc = "handled", !.sent = handle_intent(bot.intent[1])]
    /\ UNCHANGED <<gatewayVars, backendVars, inferVars, toolVars, clientVars, listener, directory>>

NextBot == TypeWord \/ RecognizeIntent \/ HandleIntent

SpecBot == Init /\ [][NextBot]_vars

(***************************************************************************)
(* miga_shared/utils/redis_bus.py: RedisPubSub.subscribe, _listen, close.  *)
(* _handlers is an insertion-ordered dict from channel to handler list.    *)
(* A handler call either returns or raises an exception of some class.     *)
(***************************************************************************)
MaxHandlers == 2
MaxMessages == 2

BusChannels == {"miga:events:correlated", "miga:alerts:security", "miga:approval:request"}

BusHandlers == {"_on_correlated_event", "_on_security_alert"}

\* what one handler call does: return, or raise one of these
HandlerOutcomes == {"return", "ValidationError", "TypeError", "KeyError"}

\* the messages pubsub.listen() yields: subscribe confirmations and messages,
\* whose data is a JSON document or not
BusMessages ==
    [type : {"subscribe", "message"}, channel : BusChannels, data : {"json", "not_json"}]

\* self._handlers.get(ch, [])
HandlersFor(handlers, ch) ==
    IF \E i \in DOMAIN handlers : handlers[i][1] = ch
    THEN handlers[CHOOSE i \in DOMAIN handlers : handlers[i][1] = ch][2]
    ELSE <<>>

\* self._handlers.setdefault(channel, []).append(handler)
SetDefaultAppendHandler(handlers, channel, handler) ==
    IF \E i \in DOMAIN handlers : handlers[i][1] = channel
    THEN [i \in DOMAIN handlers |->
             IF handlers[i][1] = channel
             THEN <<channel, Append(handlers[i][2], handler)>>
             ELSE handlers[i]]
    ELSE Append(handlers, <<channel, <<handler>>>>)

\* the inner `except Exception` lets every exception propagate
CaughtNever(outcome) == FALSE

\* the inner `except Exception`: every class a handler raises here derives
\* from Exception
Caught(outcome) == outcome \in {"ValidationError", "TypeError", "KeyError"}

\* `for handler in self._handlers.get(ch, [])` from position k on: the calls
\* made, and whether an exception left the loop
RECURSIVE HandlerLoop(_, _, _)
HandlerLoop(hs, outcomes, k) ==
    IF k > Len(hs) THEN [calls |-> <<>>, escaped |-> FALSE]
    ELSE LET call == [handler |-> hs[k], outcome |-> outcomes[k]]
         IN  IF outcomes[k] = "return" \/ Caught(outcomes[k])
             THEN LET rest == HandlerLoop(hs, outcomes, k + 1)
                  IN  [calls |-> <<call>> \o rest.calls, escaped |-> rest.escaped]
             ELSE [calls |-> <<call>>, escaped |-> TRUE]

\* json.loads(msg["data"]), or {"raw": msg["data"]} on JSONDecodeError
DecodedData(data) == IF data = "json" THEN "document" ELSE "raw"

Subscribe ==
    /\ listener.pc = "listening"
    /\ \E channel \in BusChannels \ {"miga:approval:request"}, handler \in BusHandlers :
          /\ Len(HandlersFor(listener.handlers, channel)) < MaxHandlers
          /\ listener' = [listener EXCEPT
                 !.handlers = SetDefaultAppendHandler(@, channel, handler)]
    /\ UNCHANGED <<gatewayVars, backendVars, inferVars, toolVars, clientVars, bot, directory>>

\* one iteration of `async for msg in self._pubsub.listen()`
ListenMessage ==
    /\ listener.pc = "listening"
    /\ Len(listener.messages) < MaxMessages
    /\ \E msg \in BusMessages :
          IF msg.type # "message"
          THEN listener' = [listener EXCEPT
                   !.messages = Append(@, [msg |-> msg, registered |-> <<>>,
                                           data |-> "none", calls |-> <<>>])]
          ELSE LET hs == HandlersFor(listener.handlers, msg.channel)
               IN  \E outcomes \in [DOMAIN hs -> HandlerOutcomes] :
                      LET done == HandlerLoop(hs, outcomes, 1)
                      IN  listener' = [listener EXCEPT
                              !.pc = IF done.escaped THEN "failed" ELSE "listening",
                              !.messages = Append(@, [msg |-> msg, registered |-> hs,
                                                      data |-> DecodedData(msg.data),
                                                      calls |-> done.calls])]
    /\ UNCHANGED <<gatewayVars, backendVars, inferVars, toolVars, clientVars, bot, directory>>

\* close(): self._task.cancel(), which _listen absorbs
CloseBus ==
    /\ listener.pc = "listening"
    /\ listener' = [listener EXCEPT !.pc = "cancelled"]
    /\ UNCHANGED <<gatewayVars, backendVars, inferVars, toolVars, clientVars, bot, directory>>

NextBus == Subscribe \/ ListenMessage \/ CloseBus

SpecBus == Init /\ [][NextBus]_vars

(***************************************************************************)
(* Properties of the routing table (SpecRouting).                          *)
(***************************************************************************)
Declares(record, n) ==
    \E j \in DOMAIN record.capabilities : record.capabilities[j].tool_name = n

DeclaringIndexes(records, n) == {i \in DOMAIN records : Declares(records[i], n)}

Max(S) == CHOOSE x \in S : \A y \in S : y <= x

\* C1: after load_from_oasf(R), get_tool(n) is defined iff some record of R
\* declares a capability named n, and the entry carries the endpoint of the
\* last record of R that declares n.
C1_RoutingUniqueness ==
    gw_pc # "startup" =>
        \A n \in ToolNames :
            LET idx == DeclaringIndexes(loaded, n)
            IN  /\ (get_tool(n) # None) <=> (idx # {})
                /\ idx # {} => get_tool(n)[1].endpoint = loaded[Max(idx)].endpoint

\* a refresh has loaded two records that declare one tool name under
\* different endpoints, and get_tool answers with the later one
C1_Witness ==
    /\ now > 1
    /\ \E n \in ToolNames :
        \E i \in DeclaringIndexes(loaded, n), k \in DeclaringIndexes(loaded, n) :
            /\ i < k
            /\ loaded[i].endpoint # loaded[k].endpoint
            /\ get_tool(n) # None
            /\ get_tool(n)[1].endpoint = loaded[k].endpoint

EndpointValues == {all_endpoints[i][2] : i \in DOMAIN all_endpoints}

\* C2: in every state a request can observe, every entry of tools_for_role(r)
\* has an endpoint that is among the values of all_endpoints().
C2_RoleEntriesHaveEndpoints ==
    gw_pc = "serving" =>
        \A r \in MIGARole :
            \A i \in DOMAIN tools_for_role(r) :
                tools_for_role(r)[i].endpoint \in EndpointValues

\* C4: a refresh iteration whose discover() returns the empty list leaves the
\* four indexes as they were; an iteration replaces them only by the table of
\* a non-empty discover() result.
C4_EmptyRefreshKeepsTable ==
    [][ (refresh_pc = "discovering" /\ refresh_pc' = "sleeping") =>
            /\ fresh' = <<>> =>
                   UNCHANGED <<by_tool, by_role, by_platform, endpoints, last_refresh>>
            /\ <<by_tool, by_role, by_platform, endpoints>>' #
                   <<by_tool, by_role, by_platform, endpoints>> =>
                   /\ fresh' # <<>>
                   /\ by_tool' = BuildTable(fresh').by_tool
                   /\ by_role' = BuildTable(fresh').by_role
                   /\ by_platform' = BuildTable(fresh').by_platform
                   /\ endpoints' = BuildTable(fresh').endpoints ]_vars

\* a refresh iteration has just returned the empty list while the table built
\* at startup holds tools
C4_Witness ==
    /\ now > 1
    /\ refresh_pc = "sleeping"
    /\ fresh = <<>>
    /\ DOMAIN by_tool # {}

(***************************************************************************)
(* Properties of the meta-tools (Spec).                                    *)
(***************************************************************************)
\* the table of the record set that was live when the request made its reads
SnapshotTable == BuildTable(req.snapshot)

IsRoleRequest == req.pc # "idle" /\ req.tool \in MIGARole

IsDirect == Truthy(req.params.tool_name)

\* C3: every read a meta-tool request makes of the tool index, the role index
\* and the endpoint map, and every entry it reports, reflects one record set:
\* the one that was loaded when the request started, whatever refresh runs
\* while the request is suspended.
C3_ConsistentReads ==
    /\ IsRoleRequest =>
          /\ req.role_entries = SnapshotTable.by_role[req.tool]
          /\ IsDirect =>
                req.entry = (IF req.params.tool_name[1] \in DOMAIN SnapshotTable.by_tool
                             THEN Some(SnapshotTable.by_tool[req.params.tool_name[1]])
                             ELSE None)
          /\ (req.pc = "done" /\ req.response.kind = "summary") =>
                /\ Len(req.response.body) = Len(calls)
                /\ \A i \in DOMAIN calls :
                      \E k \in DOMAIN SnapshotTable.by_role[req.tool] :
                          LET e == SnapshotTable.by_role[req.tool][k]
                          IN  /\ e.endpoint = calls[i].endpoint
                              /\ e.tool_name = calls[i].tool_name
                              /\ e.platform = req.response.body[i].platform
    /\ (req.pc # "idle" /\ req.tool = "network_status") =>
          /\ req.endpoints = SnapshotTable.endpoints
          /\ \A i \in DOMAIN calls : calls[i].endpoint = SnapshotTable.endpoints[i][2]
    /\ (req.pc # "idle" /\ req.tool = "gateway_health") =>
          /\ req.response.body.servers = Len(SnapshotTable.endpoints)
          /\ req.response.body.tools = Cardinality(DOMAIN SnapshotTable.by_tool)
          /\ req.response.body.endpoints = SnapshotTable.endpoints

\* a broadcast has returned its summary after a refresh replaced the table
\* it had read
C3_Witness ==
    /\ IsRoleRequest
    /\ req.pc = "done"
    /\ req.response.kind = "summary"
    /\ req.snapshot # loaded
    /\ last_refresh > 1

ApprovalPublishedFor(tool_name) ==
    \E i \in DOMAIN bus_log :
        /\ bus_log[i].channel = "miga:approval:request"
        /\ bus_log[i].tool = tool_name

\* C5: a direct call to a routed tool whose entry has requires_approval is
\* forwarded only with an approval:request envelope published on the bus.
C5_ApprovalBeforeForward ==
    (/\ IsRoleRequest
     /\ IsDirect
     /\ req.entry # None
     /\ calls # <<>>) =>
        (req.entry[1].requires_approval => ApprovalPublishedFor(req.entry[1].tool_name))

\* the claim's own reading of "summary tool"
NamesSummary(name) == \E w \in {S_health, S_overview, S_status} : Contains(name, w)

\* E: the entries serving the role, restricted to `platforms` when that is a
\* non-empty list; H: those of E whose name is a summary name
ClaimE ==
    LET all == SnapshotTable.by_role[req.tool]
    IN  IF Truthy(req.params.platforms)
        THEN SelectSeq(all, LAMBDA e : e.platform \in Range(req.params.platforms[1]))
        ELSE all

ClaimH == SelectSeq(ClaimE, LAMBDA e : NamesSummary(e.tool_name))

DirectCallsAsClaimed ==
    LET name == req.params.tool_name[1]
    IN  IF name \in DOMAIN SnapshotTable.by_tool
        THEN calls = <<Call(SnapshotTable.by_tool[name].endpoint, name,
                            req.params.arguments)>>
        ELSE /\ calls = <<>>
             /\ req.pc = "done"
             /\ req.response = Response("not_found", name)

BroadcastCallsAsClaimed ==
    calls = [i \in DOMAIN ClaimH |->
                Call(ClaimH[i].endpoint, ClaimH[i].tool_name, NoArguments)]

ListingOfE ==
    /\ req.pc = "done"
    /\ req.response = Response("listing", [i \in DOMAIN ClaimE |-> ListingLine(ClaimE[i])])

\* C7 as claimed: the downstream calls of a role meta-tool are exactly: none
\* and a not-found answer for an unrouted tool_name; one call with the caller's
\* arguments for a routed tool_name; without tool_name one call with empty
\* arguments per summary entry of the role, and when there is none a listing
\* of the role's entries.
C7_CallsAsClaimed ==
    IsRoleRequest =>
        IF IsDirect THEN DirectCallsAsClaimed
        ELSE /\ BroadcastCallsAsClaimed
             /\ ClaimH = <<>> => ListingOfE

\* C7 as amended: as C7_CallsAsClaimed, but when no entry serves the role
\* (after the platform restriction) the answer is a "no tools available"
\* message and the listing is returned only when some entry serves the role
\* and none of them is a summary tool; tool_name and platforms count as given
\* when they are non-empty.
C7_CallsAmended ==
    IsRoleRequest =>
        IF IsDirect THEN DirectCallsAsClaimed
        ELSE /\ BroadcastCallsAsClaimed
             /\ ClaimE = <<>> =>
                   req.pc = "done" /\ req.response = Response("no_tools", req.tool)
             /\ (ClaimE # <<>> /\ ClaimH = <<>>) => ListingOfE

\* a broadcast restricted by a platform list has dispatched a summary tool
\* and skipped another entry of the role
C7_Witness ==
    /\ IsRoleRequest
    /\ ~IsDirect
    /\ Truthy(req.params.platforms)
    /\ Len(calls) >= 1
    /\ Len(SnapshotTable.by_role[req.tool]) > Len(calls)

\* C8: a broadcast returns only when every dispatch has completed, it returns
\* the summary, and the summary has one section per dispatched entry, in
\* dispatch order, a failed dispatch showing its error text.
C8_BroadcastIsolation ==
    (IsRoleRequest /\ ~IsDirect /\ req.pc = "done" /\ calls # <<>>) =>
        /\ req.response.kind = "summary"
        /\ Len(req.results) = Len(calls)
        /\ \A i \in DOMAIN calls : req.results[i] # None
        /\ Len(req.response.body) = Len(calls)
        /\ \A i \in DOMAIN calls :
              /\ req.response.body[i].platform = req.tasks[i].platform
              /\ req.tasks[i].endpoint = calls[i].endpoint
              /\ req.response.body[i].failed = req.results[i][1].is_error
              /\ req.response.body[i].text = req.results[i][1].text

\* a summary in which the first dispatch failed and a later one succeeded
C8_Witness ==
    /\ IsRoleRequest
    /\ ~IsDirect
    /\ req.pc = "done"
    /\ Len(calls) >= 2
    /\ req.results[1][1].is_error
    /\ req.response.body[1].failed
    /\ ~req.response.body[2].failed

(***************************************************************************)
(* Properties of the platform servers (SpecBackend) and of INFER           *)
(* (SpecIngest, SpecRCA).                                                  *)
(***************************************************************************)
GatedTools ==
    {c.tool_name : c \in {c \in BackendCapabilities : c.requires_approval \/ c.destructive}}

\* C6: every invocation of a tool whose capability has requires_approval or
\* destructive set has, when it returns, published an approval:request
\* envelope that carries an approval id and created an Audit Entry whose
\* action type is execute or delete.
C6_GatedInvocationsPublishAndAudit ==
    \A i \in DOMAIN returned :
        returned[i].tool \in GatedTools =>
            /\ \E j \in DOMAIN bus_log :
                  /\ bus_log[j].channel = "miga:approval:request"
                  /\ bus_log[j].tool = returned[i].tool
                  /\ "approval_id" \in bus_log[j].keys
            /\ \E k \in DOMAIN audit_log :
                  /\ audit_log[k].tool_name = returned[i].tool
                  /\ audit_log[k].action_type \in {"execute", "delete"}

\* C9: whatever messages the ingest handlers have been given, the event
\* buffer never holds more events than the limit.
C9_BufferBounded == Len(event_buffer) <= BufferLimit

ClaimSignalMatched(signal, events) ==
    \E i \in DOMAIN events :
        /\ events[i].source_platform = Some(signal.platform)
        /\ _severity_rank(Get(events[i].severity, S_info)) >= _severity_rank(signal.min_severity)
        /\ events[i].event_type = Some(signal.event_type)

ClaimTemplateMatched(template, group) ==
    /\ \A k \in DOMAIN template.signal_pattern :
          template.signal_pattern[k].platform \in group.platforms
    /\ \A k \in DOMAIN template.signal_pattern :
          ClaimSignalMatched(template.signal_pattern[k], group.events)

\* C10: match_root_cause treats a template as matched iff every platform of
\* its signal pattern is in the group's platform set and each signal has an
\* event of the group with that platform, a severity rank at least the
\* signal's, and the signal's event_type; so the template it returns is the
\* first one so matched, and it returns None when there is none.
C10_MatchIffSignalsPresent ==
    rca_pc = "matched" =>
        LET claimed == {k \in DOMAIN ROOT_CAUSE_TEMPLATES :
                           ClaimTemplateMatched(ROOT_CAUSE_TEMPLATES[k], rca_group)}
        IN  /\ (rca_result = None) <=> (claimed = {})
            /\ rca_result # None =>
                  \E k \in claimed :
                      /\ \A j \in claimed : k <= j
                      /\ rca_result[1].template_id = ROOT_CAUSE_TEMPLATES[k].id

(***************************************************************************)
(* Properties of correlate_events (SpecCorrelate).                         *)
(***************************************************************************)
GroupMembers(g) == {g.events[k].event_id : k \in DOMAIN g.events}

\* C11: two events that are members of one group of correlate_events(events,
\* w) are members of one common group of correlate_events on the reversed
\* list, equal timestamps included.
C11_CorrelationSymmetry ==
    an_pc = "correlate_events" =>
        \A g \in DOMAIN an_out.groups :
            \A a \in GroupMembers(an_out.groups[g]), b \in GroupMembers(an_out.groups[g]) :
                \E h \in DOMAIN an_out.reversed :
                    {a, b} \subseteq GroupMembers(an_out.reversed[h])

\* C12: every group correlate_events returns has event_count >= 2 (the
\* number of its events); an empty and a one-event input give no group.
C12_MinimumGroupSize ==
    an_pc = "correlate_events" =>
        /\ \A g \in DOMAIN an_out.groups :
              /\ an_out.groups[g].event_count >= 2
              /\ an_out.groups[g].event_count = Len(an_out.groups[g].events)
        /\ Len(an_events) <= 1 => an_out.groups = <<>>

\* a three-event input of which two events were grouped and the third,
\* overlapping nothing, was left out
C12_Witness ==
    /\ an_pc = "correlate_events"
    /\ Len(an_events) = 3
    /\ Len(an_out.groups) = 1
    /\ an_out.groups[1].event_count = 2

(***************************************************************************)
(* Properties of match_root_cause under extension (SpecRCAExtend).         *)
(***************************************************************************)
\* C13: if match_root_cause returns a match for a group, it returns a match
\* (not None) for the group extended by any further event whose platform is
\* added to the group's platform set.
C13_RCAMonotone ==
    [][ (rca_pc = "matched" /\ rca_pc' = "extended" /\ rca_result # None)
            => rca_result' # None ]_vars

\* an extended group that matches, whose events before the extension
\* already matched
C13_Witness ==
    /\ rca_pc = "extended"
    /\ rca_result # None
    /\ Len(rca_group.events) = 3
    /\ match_root_cause([platforms |-> rca_group.platforms,
                         events |-> SubSeq(rca_group.events, 1, 2)]) # None
    /\ rca_group.events[3].source_platform # rca_group.events[1].source_platform
    /\ rca_group.events[3].source_platform # rca_group.events[2].source_platform

(***************************************************************************)
(* Properties of detect_anomalies (SpecAnomaly).                           *)
(***************************************************************************)
KeysOf(evs) == {BucketKey(evs[k]) : k \in DOMAIN evs}

ReportedKeys == {<<an_out[k].platform, an_out[k].event_type>> : k \in DOMAIN an_out}

\* the condition of the claim on one key, on the exact quantities
ClaimSpike(evs, key) ==
    LET ts == SortedTimestamps(evs, key)
        xs == Intervals(ts)
        n == Len(xs)
        S == SumSeq(xs)
        Q == SumSeq([i \in DOMAIN xs |-> xs[i] * xs[i]])
        r == xs[n]
    IN  /\ Len(ts) >= 3
        /\ S # 0
        /\ n * Q - S * S > 0
        /\ S - n * r > 0
        /\ (S - n * r) * (S - n * r) > 4 * (n * Q - S * S)

HighEvents(p) ==
    {k \in DOMAIN an_events : /\ an_events[k].source_platform = p
                               /\ an_events[k].severity \in {S_high, S_critical}}

CascadingPlatforms ==
    {p \in current_platforms(an_events) : Cardinality(HighEvents(p)) >= 3}

ComplexClaimed ==
    /\ Cardinality(current_platforms(an_events)) >= 3
    /\ \E k \in DOMAIN an_events : an_events[k].severity \in {S_medium, S_high, S_critical}

\* C15: predict_failures returns one cascading_failure prediction (high,
\* confidence min(0.9, 0.6 + 0.1*count), 30 minutes, the platform) for each
\* platform with at least 3 events of rank >= 4, then one complex_incident
\* prediction (critical for >= 4 platforms else high, confidence 0.70, 15
\* minutes, every platform) iff the events span >= 3 platforms and one has
\* rank >= 3, and nothing else; nothing at all when every event is low or info.
C15_PredictionsAsClaimed ==
    an_pc = "predict_failures" =>
        LET n == Cardinality(CascadingPlatforms)
        IN  /\ Len(an_out) = n + (IF ComplexClaimed THEN 1 ELSE 0)
            /\ {an_out[k].affected_platform : k \in 1..n} = CascadingPlatforms
            /\ \A k \in 1..n :
                  an_out[k] =
                      [type |-> "cascading_failure", risk_level |-> "high",
                       confidence |->
                           Min(90, 60 + 10 * Cardinality(HighEvents(an_out[k].affected_platform))),
                       affected_platform |-> an_out[k].affected_platform,
                       time_horizon_minutes |-> 30]
            /\ ComplexClaimed =>
                  an_out[n + 1] =
                      [type |-> "complex_incident",
                       risk_level |-> IF Cardinality(current_platforms(an_events)) >= 4
                                      THEN "critical" ELSE "high",
                       confidence |-> 70,
                       affected_platforms |-> current_platforms(an_events),
                       time_horizon_minutes |-> 15]
            /\ (\A k \in DOMAIN an_events : an_events[k].severity \in {S_low, S_info})
                  => an_out = <<>>

\* a cascading failure and a complex incident were predicted together
C15_Witness ==
    /\ an_pc = "predict_failures"
    /\ Len(an_out) = 2
    /\ an_out[1].type = "cascading_failure"
    /\ an_out[2].type = "complex_incident"

(***************************************************************************)
(* Properties of infer_network_risk_score (SpecRisk).                      *)
(***************************************************************************)
RiskReturned == tool_result.tool = "infer_network_risk_score"

TierRanges ==
    [LOW |-> 0..25, MODERATE |-> 26..50, ELEVATED |-> 51..75, CRITICAL |-> 76..100]

\* C16: whatever the event buffer, the anomaly log and the two toggles hold,
\* the risk score is a total in 0..100 made of an event component <= 60, an
\* anomaly component <= 20 and a prediction component <= 20, and its tier
\* is the one tier whose range (LOW 0-25, MODERATE 26-50, ELEVATED 51-75,
\* CRITICAL 76-100) holds the total.
C16_RiskScoreBoundedAndTiered ==
    RiskReturned =>
        LET out == tool_result.out
        IN  /\ out.total \in 0..100
            /\ out.event_score \in 0..60
            /\ out.anomaly_score \in 0..20
            /\ out.prediction_score \in 0..20
            /\ out.total = out.event_score + out.anomaly_score + out.prediction_score
            /\ out.tier \in DOMAIN TierRanges
            /\ \A tier \in DOMAIN TierRanges :
                  (out.total \in TierRanges[tier]) <=> (out.tier = tier)

\* every component is at its cap and the total is 100, with more than four
\* anomalies logged
C16_Witness ==
    /\ RiskReturned
    /\ tool_result.out.total = 100
    /\ tool_result.out.tier = "CRITICAL"
    /\ Len(anomaly_log) > 4

(***************************************************************************)
(* Properties of the directory client (SpecDirectory).                     *)
(***************************************************************************)
\* connection refused, timeout, non-2xx response, undecodable body
TransportErrors ==
    {"ConnectError", "ConnectTimeout", "ReadTimeout", "HTTPStatusError", "JSONDecodeError"}

TransportFailures ==
    {k \in DOMAIN directory_calls :
        /\ directory_calls[k].raises # None
        /\ directory_calls[k].raises[1] \in TransportErrors}

ReturnedValue(k, value) ==
    /\ directory_calls[k].result.kind = "return"
    /\ directory_calls[k].result.value = value

OnlyRateLimited ==
    /\ api.responses # <<>>
    /\ \A k \in DOMAIN api.responses :
          /\ api.responses[k].raises = None
          /\ api.responses[k].status = 429

\* C18: when the backend keeps answering 429, _request waits the
\* Retry-After of the response (or the default back-off) between attempts,
\* makes at most MAX_RETRIES attempts, and ends by reporting a rate-limit
\* error that carries status 429.
C18_RateLimitReported ==
    OnlyRateLimited =>
        /\ Len(api.responses) <= MAX_RETRIES
        /\ api.pc = "done" =>
              /\ api.result[1].kind = "raise"
              /\ api.result[1].status_code = Some(429)

(***************************************************************************)
(* Properties of the INFER tools (SpecTools).                              *)
(***************************************************************************)
\* C19: after any sequence of ingested events and INFER tool invocations,
\* the incident history and the anomaly log each hold no more entries than
\* a fixed capacity.
C19_RetentionBounded ==
    /\ Len(incident_history) <= RetentionCapacity
    /\ Len(anomaly_log) <= RetentionCapacity

\* what infer_network_risk_score returns now, for each setting of its toggles
RiskScores ==
    [toggles \in BOOLEAN \X BOOLEAN |->
        network_risk_score(event_buffer, anomaly_log, incident_history,
                           toggles[1], toggles[2])]

\* a step that ingests nothing and publishes nothing: a tool invocation
NoIngest == feed' = feed /\ event_buffer' = event_buffer

\* C20: the six INFER tools are read-only and idempotent: an invocation
\* changes none of the event buffer, the incident history and the anomaly
\* log, so with no newly ingested event infer_network_risk_score returns
\* the same result whatever tools were invoked before it.
C20_ToolsReadOnly ==
    [][NoIngest => /\ incident_history' = incident_history
                   /\ anomaly_log' = anomaly_log
                   /\ RiskScores' = RiskScores]_vars

(***************************************************************************)
(* Properties of recognize_intent and handle_intent (SpecBot).             *)
(***************************************************************************)
MatchingRows ==
    {k \in DOMAIN INTENT_PATTERNS : Search(INTENT_PATTERNS[k].pattern, Lower(Strip(bot.text)))}

WinningRow ==
    CHOOSE k \in MatchingRows :
        \A j \in MatchingRows :
            \/ INTENT_PATTERNS[j].confidence < INTENT_PATTERNS[k].confidence
            \/ INTENT_PATTERNS[j].confidence = INTENT_PATTERNS[k].confidence /\ k <= j

RoleQueryKeys == {"query", "platforms", "tool_name", "arguments"}

\* C30: every arguments object handle_intent sends to a gateway role
\* meta-tool has no key other than query, platforms, tool_name and
\* arguments, also when the classifier extracted entities from the text.
C30_ArgumentsFitRoleQuery ==
    (bot.sent # None /\ bot.sent[1].tool_name \in MIGARole) =>
        bot.sent[1].keys \subseteq RoleQueryKeys


\* the entries of a tools_for_role / tools_for_platform answer are one per
\* tool name and each is the entry get_tool returns for its name
OnePerToolAndCurrent(entries) ==
    /\ \A i \in DOMAIN entries : \A j \in DOMAIN entries :
           entries[i].tool_name = entries[j].tool_name => i = j
    /\ \A i \in DOMAIN entries :
           /\ get_tool(entries[i].tool_name) # None
           /\ get_tool(entries[i].tool_name)[1].endpoint = entries[i].endpoint

\* C22: after load_from_oasf(R), for every role r and platform p,
\* tools_for_role(r) and tools_for_platform(p) hold at most one entry per
\* tool name and that entry has the endpoint get_tool returns for the name,
\* also when several records of R declare the same tool name.
C22_RoleAndPlatformAgreeWithGetTool ==
    gw_pc # "startup" =>
        /\ \A r \in MIGARole : OnePerToolAndCurrent(tools_for_role(r))
        /\ \A p \in PlatformType : OnePerToolAndCurrent(tools_for_platform(p))


\* C23: in every group correlate_events returns, each member after the seed
\* (the group's first event) shares an entity with the seed and lies within
\* window_seconds of it, bound included; the group's time_span_seconds is at
\* most window_seconds; and a list of two events that share no entity or lie
\* more than window_seconds apart yields no group.
C23_MembersOverlapSeed ==
    an_pc = "correlate_events" =>
        /\ \A g \in DOMAIN an_out.groups :
              LET group == an_out.groups[g].events
                  seed == group[1]
              IN  /\ \A k \in 2..Len(group) :
                         /\ group[k].affected_entities \cap seed.affected_entities # {}
                         /\ Abs(group[k].timestamp - seed.timestamp) <= an_window
                  /\ an_out.groups[g].time_span_seconds <= an_window
                  /\ an_out.groups[g].time_span_seconds >= 0
        /\ (/\ Len(an_events) = 2
            /\ \/ an_events[1].affected_entities \cap an_events[2].affected_entities = {}
               \/ Abs(an_events[1].timestamp - an_events[2].timestamp) > an_window)
           => an_out.groups = <<>>

\* a seed has gathered two later events, the last of them exactly
\* window_seconds after it
C23_Witness ==
    /\ an_pc = "correlate_events"
    /\ an_window = 200
    /\ \E g \in DOMAIN an_out.groups :
          /\ an_out.groups[g].event_count = 3
          /\ an_out.groups[g].time_span_seconds = 200


\* C24: every message on a channel is handed to each handler registered for
\* the channel, in order, whether or not an earlier handler raised; a raising
\* handler never ends the listener, which goes on to the next message; and a
\* message on a channel without a handler invokes no handler.
C24_HandlerErrorsIsolated ==
    /\ listener.pc \in {"listening", "cancelled"}
    /\ \A m \in DOMAIN listener.messages :
          LET rec == listener.messages[m]
          IN  rec.msg.type = "message" =>
                 /\ Len(rec.calls) = Len(rec.registered)
                 /\ \A k \in DOMAIN rec.calls : rec.calls[k].handler = rec.registered[k]
                 /\ rec.registered = <<>> => rec.calls = <<>>

\* the first of two handlers raised, the second was still called, and the
\* listener delivered a later message
C24_Witness ==
    /\ Len(listener.messages) = 2
    /\ LET rec == listener.messages[1]
       IN  /\ Len(rec.calls) = 2
           /\ rec.calls[1].outcome = "ValidationError"
           /\ rec.calls[2].outcome = "return"
    /\ Len(listener.messages[2].calls) = 1
    /\ listener.messages[2].msg.channel # listener.messages[1].msg.channel


\* C25: ingest is idempotent per event_id: the event buffer never holds two
\* events with equal event_id, however often a message is delivered.
C25_IngestIdempotent ==
    \A i \in DOMAIN event_buffer : \A j \in DOMAIN event_buffer :
        event_buffer[i].event_id = event_buffer[j].event_id => i = j


OnStaticFallback == gw_pc # "startup" /\ loaded = _build_static_records

\* C27: a routing table built from the static fallback has one endpoint per
\* fallback backend name and no tool: get_tool is undefined for every name and
\* tools_for_role is empty for every role; a role meta-tool request served
\* from it answers not-found when it names a tool and makes no downstream
\* call either way; and the table stays so until a refresh brings a
\* non-empty record set.
C27_StaticFallbackHasNoTools ==
    /\ [](OnStaticFallback =>
            /\ Len(all_endpoints) = Len(StaticServers)
            /\ \A i \in DOMAIN StaticServers :
                  \E k \in DOMAIN all_endpoints :
                      /\ all_endpoints[k][1] = StaticServers[i][1]
                      /\ \A j \in DOMAIN all_endpoints :
                            all_endpoints[j][1] = StaticServers[i][1] => j = k
            /\ DOMAIN by_tool = {}
            /\ \A n \in ToolNames : get_tool(n) = None
            /\ \A r \in MIGARole : tools_for_role(r) = <<>>)
    /\ []((req.pc # "idle" /\ req.tool \in MIGARole
              /\ req.snapshot = _build_static_records) =>
            /\ calls = <<>>
            /\ req.pc = "done"
            /\ req.response.kind =
                  IF Truthy(req.params.tool_name) THEN "not_found" ELSE "no_tools")
    /\ [][(OnStaticFallback /\ ~OnStaticFallback') =>
              /\ refresh_pc = "discovering"
              /\ fresh' # <<>>
              /\ loaded' = fresh']_vars

\* the fallback table has outlived an empty refresh and a direct call for a
\* tool was answered not-found from it
C27_Witness ==
    /\ OnStaticFallback
    /\ now > 1
    /\ refresh_pc = "sleeping"
    /\ req.pc = "done"
    /\ req.tool \in MIGARole
    /\ req.snapshot = _build_static_records
    /\ req.response.kind = "not_found"


\* C28: an event stored from the alerts:security channel has no affected
\* entity, the ingest time as its timestamp and an id of its own, whatever
\* the envelope carried; and no group correlate_events returns has such an
\* event as a member.
C28_AlertsNeverCorrelated ==
    /\ \A i \in DOMAIN event_buffer :
          /\ event_buffer[i].event_id[1] # "alert"
          /\ event_buffer[i].event_id[1] = "uuid4" =>
                /\ event_buffer[i].affected_entities = {}
                /\ event_buffer[i].timestamp \in AlertIngestTimes
    /\ tool_result.tool = "infer_correlate_events" =>
          \A g \in DOMAIN tool_result.out :
              \A k \in DOMAIN tool_result.out[g].events :
                  tool_result.out[g].events[k].event_id[1] # "uuid4"

\* correlate_events has grouped the two DNS events while two stored alerts
\* lie within the window of them
C28_Witness ==
    /\ tool_result.tool = "infer_correlate_events"
    /\ Len(tool_result.out) = 1
    /\ tool_result.out[1].event_count = 2
    /\ Len(StoredAlerts) = 2
    /\ Len(event_buffer) = 4


\* a thousandeyes dns_failure of severity high with a meraki
\* client_connectivity_drop of severity medium
DnsCascadeGroup ==
    [platforms |-> {"thousandeyes", "meraki"},
     events |-> << GroupEvent(Some("thousandeyes"), Some("dns_failure"), Some(S_high)),
                   GroupEvent(Some("meraki"), Some("client_connectivity_drop"), Some(S_medium)) >>]

\* C29: match_root_cause answers the group of a thousandeyes dns_failure of
\* severity high and a meraki client_connectivity_drop of severity medium
\* with template rca-dns-cascade, one of the five templates each of which some
\* group obtains.
C29_DnsCascadeReturned ==
    (rca_pc = "matched" /\ rca_group = DnsCascadeGroup) =>
        /\ rca_result # None
        /\ rca_result[1].template_id = "rca-dns-cascade"

====
